---- MODULE Spec2Model ----
(***************************************************************************)
(* A model of the pack search of the superword-level vectorizer: the      *)
(* per-block analyses (dependence, consecutive-access DAGs, matches), the  *)
(* Frontier and its transitions, the pack-producing routines, the MCTS     *)
(* tree search and the Plan.                                               *)
(*                                                                         *)
(* Values are integers: 0 is a null (don't-care) lane, 1..NumInsts are the *)
(* instructions of the block in program order (the scalar ids of the       *)
(* ValueIndex), -1 .. -9 are function arguments and the numbers from -10   *)
(* down are constants.  Costs are integers.                                *)
(***************************************************************************)
EXTENDS Integers, Sequences, FiniteSets, TLC

VARIABLES
  BB,            \* the basic block being optimized (an index into Blocks)
  Frt,           \* the frontier a driver currently works on
  Src,           \* the frontier the last advance was called on, after the call
  PP,            \* the partial pack being filled (NoPP when none)
  last,          \* the last transition applied, with what it froze and its cost
  shuffles,      \* the number of shuffle tasks applied so far
  assertFailed,  \* TRUE once the assertion of freezeOneInst has failed
  Nodes,         \* UCTNodeFactory::Nodes in creation order; the root is the first
  pc,            \* "off": no tree search; "idle": outside run; "running": in run
  Iter,          \* the iteration counter of UCTSearch::run
  NumIters,      \* the number of iterations the current run executes
  asked,         \* the number of iterations run was called with
  runs,          \* the number of calls of run so far
  ExpandThreshold,
  rootAtCall,    \* the root's visit count and shape when run was called
  producers,     \* Plan: the pack producing each value (NoPack when none)
  unresolved,    \* Plan: the use count of each operand pack
  cost,          \* Plan: the cached cost
  planLast,      \* Plan: the last operation, its pack and the cost before it
  Solutions,     \* DPSolver::Solutions: the solution memoized for each frontier
  dpLast,        \* DPSolver: the last call of solve, its frontier and result
  heurLast,      \* Heuristic: the last solve, its operand pack, candidates and costs
  roll,          \* RolloutEvaluator::evaluate: where it is, its scratch frontier and partial pack, its cost
  pol,           \* NeuralPackingPolicy: shutdown flag, queue, pending nodes, inflight count, weights, notified threads
  thr,           \* the threads using the policy: where each is and what it holds
  polLast,       \* the last read of a node's transitionWeight by the search thread
  drv,           \* generate-data's main: the module it is at, the next function, where it is
  tasks,         \* the tasks given to the thread pool: one per function
  heap,          \* the Packers and the archiver: their state and the tasks that mutated them
  call           \* the call under way of one of the other functions: its inputs, its position, its result

frontierVars == <<BB, Frt, Src, PP, last, shuffles, assertFailed>>

searchVars == <<Nodes, pc, Iter, NumIters, asked, runs, ExpandThreshold, rootAtCall>>

planVars == <<producers, unresolved, cost, planLast>>

dpVars == <<Solutions, dpLast>>

heurVars == <<heurLast>>

rollVars == <<roll>>

policyVars == <<pol, thr, polLast>>

driverVars == <<drv, tasks, heap>>

callVars == <<call>>

\* the variables of the other components
otherVars == <<dpVars, heurVars, rollVars, policyVars, driverVars, callVars>>

\* no tree search is going on
NoSearch ==
  /\ Nodes = <<>>
  /\ pc = "off"
  /\ Iter = 0
  /\ NumIters = 0
  /\ asked = 0
  /\ runs = 0
  /\ ExpandThreshold = 0
  /\ rootAtCall = [Count |-> 0, Single |-> FALSE]

\* no plan is being built
NoPlan ==
  /\ producers = <<>>
  /\ unresolved = <<>>
  /\ cost = 0
  /\ planLast = [op |-> "off"]

\* no DPSolver has been constructed
NoDP ==
  /\ Solutions = <<>>
  /\ dpLast = [op |-> "off"]

\* no Heuristic has been constructed
NoHeuristic == heurLast = [op |-> "off"]

\* evaluate is not being called
NoRollout == roll = [pc |-> "off"]

\* no policy has been constructed
NoPolicy ==
  /\ pol = [op |-> "off"]
  /\ thr = [op |-> "off"]
  /\ polLast = [op |-> "off"]

\* the driver is not running
NoDriver ==
  /\ drv = [op |-> "off"]
  /\ tasks = <<>>
  /\ heap = [op |-> "off"]

\* no other function is being called
NoCall == call = [op |-> "off"]

NoOther == NoDP /\ NoHeuristic /\ NoRollout /\ NoPolicy /\ NoDriver /\ NoCall

(***************************************************************************)
(* Helpers on sets and sequences.                                          *)
(***************************************************************************)
Range(s) == {s[i] : i \in 1..Len(s)}

Min(S) == CHOOSE x \in S : \A y \in S : x <= y

Max(S) == CHOOSE x \in S : \A y \in S : x >= y

RECURSIVE SetToSeq(_)
\* the members of a set of integers in ascending order
SetToSeq(S) == IF S = {} THEN <<>> ELSE <<Min(S)>> \o SetToSeq(S \ {Min(S)})

RECURSIVE SumSeq(_)
SumSeq(s) == IF s = <<>> THEN 0 ELSE Head(s) + SumSeq(Tail(s))

\* Body applied to the value of x, x being evaluated once
Let(x, Body(_)) == CHOOSE r \in {Body(v) : v \in {x}} : TRUE

\* the function f as the table of its values, each evaluated once
Tabulate(f) == f @@ <<>>

SelectIdx(s, T(_)) == SelectSeq([i \in 1..Len(s) |-> i], LAMBDA i : T(s[i]))

(***************************************************************************)
(* The blocks.  Each gives, per instruction, its opcode, its operands, its *)
(* address when it is a memory access, and whether it has a user outside   *)
(* the block.                                                              *)
(*   1: four consecutive loads, two adds of neighbouring loads, two stores *)
(*   2: one multiply shared by four adds (each add a mul-add match)        *)
(*   3: a load, a store to the next address, a load of it, three stores    *)
(*   4: a chain of two adds (one usable instruction at a time)             *)
(*   5: two independent adds, both live out                                *)
(*   6: a loop body: a phi of the last add, and two adds using the phi     *)
(*   7: two sums, the double of each, and an add using each double         *)
(***************************************************************************)
Blocks == {1, 2, 3, 4, 5, 6}

InstKind(b) ==
  CASE b = 1 -> <<"load", "load", "load", "load", "add", "add", "store", "store">>
    [] b = 2 -> <<"mul", "add", "add", "add", "add">>
    [] b = 3 -> <<"load", "store", "load", "store", "store", "store">>
    [] b = 4 -> <<"add", "add">>
    [] b = 5 -> <<"add", "add">>
    [] b = 6 -> <<"phi", "add", "add">>
    [] b = 7 -> <<"add", "add", "add", "add", "add", "add">>

InstOperands(b) ==
  CASE b = 1 -> << <<-1>>, <<-1>>, <<-1>>, <<-1>>, <<1, 2>>, <<3, 4>>,
                   <<5, -2>>, <<6, -2>> >>
    [] b = 2 -> << <<-1, -2>>, <<1, -3>>, <<1, -4>>, <<1, -5>>, <<1, -6>> >>
    [] b = 3 -> << <<-1>>, <<1, -1>>, <<-1>>, <<1, -2>>, <<3, -2>>, <<3, -1>> >>
    [] b = 4 -> << <<-1, -2>>, <<1, -3>> >>
    [] b = 5 -> << <<-1, -2>>, <<-3, -4>> >>
    [] b = 6 -> << <<-1, 3>>, <<1, -2>>, <<1, 2>> >>
    [] b = 7 -> << <<-1, -2>>, <<-3, -4>>, <<1, 1>>, <<2, 2>>, <<3, -5>>, <<4, -6>> >>

\* <<base object, element offset>> of a load or store; <<0, 0>> otherwise
InstAddr(b) ==
  CASE b = 1 -> << <<1, 0>>, <<1, 1>>, <<1, 2>>, <<1, 3>>, <<0, 0>>, <<0, 0>>,
                   <<2, 0>>, <<2, 1>> >>
    [] b = 2 -> << <<0, 0>>, <<0, 0>>, <<0, 0>>, <<0, 0>>, <<0, 0>> >>
    [] b = 3 -> << <<1, 0>>, <<1, 1>>, <<1, 1>>, <<2, 0>>, <<2, 1>>, <<1, 2>> >>
    [] b = 4 -> << <<0, 0>>, <<0, 0>> >>
    [] b = 5 -> << <<0, 0>>, <<0, 0>> >>
    [] b = 6 -> << <<0, 0>>, <<0, 0>>, <<0, 0>> >>
    [] b = 7 -> << <<0, 0>>, <<0, 0>>, <<0, 0>>, <<0, 0>>, <<0, 0>>, <<0, 0>> >>

\* the instructions with a user in another block
ExternalUsers(b) ==
  CASE b = 1 -> {5}
    [] b = 2 -> {2, 3, 4, 5}
    [] b = 3 -> {3}
    [] b = 4 -> {1}
    [] b = 5 -> {1, 2}
    [] b = 6 -> {3}
    [] b = 7 -> {5, 6}

NumInsts == Len(InstKind(BB))

Insts == 1..NumInsts

isInstruction(V) == V > 0

isConstant(V) == V <= -10

\* dyn_cast<Instruction>(V) succeeds and I->getParent() == BB
inBlock(V) == V \in Insts

operands(I) == InstOperands(BB)[I]

\* the instructions of the block using I (I.users() within BB)
users(I) == {U \in Insts : I \in Range(operands(U))}

isLoad(I) == I \in Insts /\ InstKind(BB)[I] = "load"

isStore(I) == I \in Insts /\ InstKind(BB)[I] = "store"

isPHI(I) == I \in Insts /\ InstKind(BB)[I] = "phi"

(***************************************************************************)
(* LocalDependenceAnalysis: the alias oracle, the direct dependences and   *)
(* their transitive closure.                                               *)
(***************************************************************************)
mayAlias(I, J) == InstAddr(BB)[I] = InstAddr(BB)[J]

Dependencies(I) ==
  {J \in Insts : J \in Range(operands(I)) /\ J < I}
  \cup {J \in Insts : /\ J < I
                      /\ (isLoad(I) \/ isStore(I))
                      /\ (isLoad(J) \/ isStore(J))
                      /\ (isStore(I) \/ isStore(J))
                      /\ mayAlias(I, J)}

RECURSIVE getDepended(_)
getDepended(I) ==
  Dependencies(I) \cup UNION {getDepended(J) : J \in Dependencies(I)}

(***************************************************************************)
(* ConsecutiveAccessDAG: A1 -> A2 iff A2 accesses the element right after  *)
(* A1.  A key is present only when it has a successor.                     *)
(***************************************************************************)
isConsecutiveAccess(A1, A2) ==
  /\ InstAddr(BB)[A1][1] = InstAddr(BB)[A2][1]
  /\ InstAddr(BB)[A2][2] = InstAddr(BB)[A1][2] + 1

buildAccessDAG(Accesses) ==
  LET succs(A1) == {A2 \in Accesses : isConsecutiveAccess(A1, A2)}
  IN  [A1 \in {A \in Accesses : succs(A) # {}} |-> succs(A1)]

LoadDAG == buildAccessDAG({I \in Insts : isLoad(I)})

StoreDAG == buildAccessDAG({I \in Insts : isStore(I)})

(***************************************************************************)
(* MatchManager: the matches of each operation of the catalog.  A match    *)
(* is its live-in values and its output; getIntermediateInsts gives the    *)
(* instructions between them, the output included.                         *)
(***************************************************************************)
Operations == {"add", "mul", "muladd"}

\* Operation::match: the matches of Op rooted at V (at most one here)
match(Op, V) ==
  IF ~inBlock(V) THEN <<>>
  ELSE CASE Op = "add" /\ InstKind(BB)[V] = "add" ->
              << [Inputs |-> operands(V), Output |-> V] >>
         [] Op = "mul" /\ InstKind(BB)[V] = "mul" ->
              << [Inputs |-> operands(V), Output |-> V] >>
         [] Op = "muladd" /\ InstKind(BB)[V] = "add"
              /\ inBlock(operands(V)[1])
              /\ InstKind(BB)[operands(V)[1]] = "mul" ->
              << [Inputs |-> operands(operands(V)[1]) \o <<operands(V)[2]>>,
                  Output |-> V] >>
         [] OTHER -> <<>>

RECURSIVE FlattenSeq(_)
FlattenSeq(ss) == IF ss = <<>> THEN <<>> ELSE Head(ss) \o FlattenSeq(Tail(ss))

RECURSIVE matchesFrom(_, _)
matchesFrom(Op, I) ==
  IF I > NumInsts THEN <<>> ELSE match(Op, I) \o matchesFrom(Op, I + 1)

\* all matches of Op in the block, sorted by output
getMatches(Op) == matchesFrom(Op, 1)

getMatchesForOutput(Op, Output) ==
  SelectSeq(getMatches(Op), LAMBDA M : M.Output = Output)

RECURSIVE IntermediatesFrom(_, _)
IntermediatesFrom(V, LiveIns) ==
  IF V \in LiveIns \/ ~inBlock(V) THEN {}
  ELSE {V} \cup UNION {IntermediatesFrom(O, LiveIns) : O \in Range(operands(V))}

getIntermediateInsts(M) == IntermediatesFrom(M.Output, Range(M.Inputs))

(***************************************************************************)
(* InstBinding: the catalog of vector instructions.  A binding has one     *)
(* bound operation per lane; a bound slice says which bits of which input  *)
(* operand feed an input of the lane's operation.                          *)
(***************************************************************************)
Slice(InputId, Lo, Hi) == [InputId |-> InputId, Lo |-> Lo, Hi |-> Hi]

InstBinding(Name) ==
  CASE Name = "add2" ->
         [Name |-> "add2", InputBitwidths |-> <<64, 64>>,
          LaneOps |-> << [Op |-> "add",
                          BoundSlices |-> <<Slice(1, 0, 32), Slice(2, 0, 32)>>],
                         [Op |-> "add",
                          BoundSlices |-> <<Slice(1, 32, 64), Slice(2, 32, 64)>>] >>]
    [] Name = "muladd2" ->
         [Name |-> "muladd2", InputBitwidths |-> <<64, 64, 64>>,
          LaneOps |-> << [Op |-> "muladd",
                          BoundSlices |-> <<Slice(1, 0, 32), Slice(2, 0, 32),
                                            Slice(3, 0, 32)>>],
                         [Op |-> "muladd",
                          BoundSlices |-> <<Slice(1, 32, 64), Slice(2, 32, 64),
                                            Slice(3, 32, 64)>>] >>]

\* Packer::getInsts: the bindings the function's target features support
getInsts ==
  CASE BB = 1 -> <<"add2">>
    [] BB = 2 -> <<"add2", "muladd2">>
    [] BB = 3 -> <<>>
    [] BB = 4 -> <<>>
    [] BB = 5 -> <<>>
    [] BB = 6 -> <<>>
    [] BB = 7 -> <<"add2">>

(***************************************************************************)
(* The target cost interface (an oracle: deterministic and pure).          *)
(***************************************************************************)
getVectorInstrCost(Opcode, Lane) == 1

getShuffleCost(ShuffleKind) == 1

getMemoryOpCost(Opcode, NumLanes) == 1

getBindingCost(Name) == 1

(***************************************************************************)
(* VectorPack and OperandPack.  An operand pack is the sequence of its     *)
(* lanes; a vector pack records what its constructor was given, and the    *)
(* rest (ordered values, operand packs, cost, replaced instructions) is    *)
(* computed from that.                                                     *)
(***************************************************************************)
createLoadPack(Loads, Elements, Depended) ==
  [Kind |-> "Load", Producer |-> "", Matches |-> <<>>, Accesses |-> Loads,
   Elements |-> Elements, Depended |-> Depended]

createStorePack(Stores, Elements, Depended) ==
  [Kind |-> "Store", Producer |-> "", Matches |-> <<>>, Accesses |-> Stores,
   Elements |-> Elements, Depended |-> Depended]

createVectorPack(Matches, Elements, Depended, Inst) ==
  [Kind |-> "General", Producer |-> Inst, Matches |-> Matches,
   Accesses |-> <<>>, Elements |-> Elements, Depended |-> Depended]

computeOrderedValues(VP) ==
  IF VP.Kind = "General"
    THEN [i \in 1..Len(VP.Matches) |-> VP.Matches[i].Output]
    ELSE VP.Accesses

getOrderedValues(VP) == computeOrderedValues(VP)

\* the operand pack of input i of a General pack: the bound inputs sorted
\* by the offset of their slice, don't-cares (0) where no lane reads
computeOperandPacksForGeneral(VP) ==
  LET B == InstBinding(VP.Producer)
      NumLanes == Len(B.LaneOps)
      BoundInputs(i) ==
        UNION {{<<B.LaneOps[j].BoundSlices[k].Lo,
                  B.LaneOps[j].BoundSlices[k].Hi - B.LaneOps[j].BoundSlices[k].Lo,
                  VP.Matches[j].Inputs[k]>> :
                  k \in {k2 \in 1..Len(B.LaneOps[j].BoundSlices) :
                           B.LaneOps[j].BoundSlices[k2].InputId = i}} :
               j \in 1..NumLanes}
      Stride(i) == (CHOOSE t \in BoundInputs(i) :
                      \A u \in BoundInputs(i) : t[1] <= u[1])[2]
      At(i, Offset) ==
        IF \E t \in BoundInputs(i) : t[1] = Offset
          THEN (CHOOSE t \in BoundInputs(i) : t[1] = Offset)[3]
          ELSE 0
  IN  [i \in 1..Len(B.InputBitwidths) |->
         [p \in 1..(B.InputBitwidths[i] \div Stride(i)) |->
            At(i, (p - 1) * Stride(i))]]

computeOperandPacksForStore(VP) ==
  << [i \in 1..Len(VP.Accesses) |-> operands(VP.Accesses[i])[1]] >>

computeOperandPacks(VP) ==
  CASE VP.Kind = "General" -> computeOperandPacksForGeneral(VP)
    [] VP.Kind = "Load" -> <<>>
    [] VP.Kind = "Store" -> computeOperandPacksForStore(VP)

getOperandPacks(VP) == computeOperandPacks(VP)

computeCost(VP) ==
  CASE VP.Kind = "General" -> getBindingCost(VP.Producer)
    [] VP.Kind = "Load" -> getMemoryOpCost("Load", Len(VP.Accesses))
    [] VP.Kind = "Store" -> getMemoryOpCost("Store", Len(VP.Accesses))

\* the instructions a pack replaces
computeReplacedInsts(VP) ==
  IF VP.Kind # "General"
    THEN {V \in Range(getOrderedValues(VP)) : V # 0}
    ELSE UNION {getIntermediateInsts(VP.Matches[i]) : i \in 1..Len(VP.Matches)}

getReplacedInsts(VP) == computeReplacedInsts(VP)

is_splat(OP) == Len(OP) > 0 /\ \A i \in 1..Len(OP) : OP[i] = OP[1]

isConstantPack(OP) == \A i \in 1..Len(OP) : OP[i] = 0 \/ isConstant(OP[i])

(***************************************************************************)
(* VectorPackContext: interned operand packs.  The interned pointer of an  *)
(* operand pack is modelled by a number that identifies its lanes, and the *)
(* order of pointers by the order of these numbers.                        *)
(***************************************************************************)
RECURSIVE PtrOf(_, _)
PtrOf(OP, Acc) ==
  IF OP = <<>> THEN Acc ELSE PtrOf(Tail(OP), Acc * 32 + (Head(OP) + 16))

getCanonicalOperandPack(OP) == PtrOf(OP, 1)

PtrLess(OP1, OP2) == getCanonicalOperandPack(OP1) < getCanonicalOperandPack(OP2)

even(OP) == [i \in 1..((Len(OP) + 1) \div 2) |-> OP[2 * i - 1]]

odd(OP) == [i \in 1..(Len(OP) \div 2) |-> OP[2 * i]]

RECURSIVE InsertSorted(_, _)
InsertSorted(s, x) ==
  IF s = <<>> THEN <<x>>
  ELSE IF PtrLess(x, Head(s)) THEN <<x>> \o s
  ELSE <<Head(s)>> \o Let(Tail(s), LAMBDA t : InsertSorted(t, x))

\* the variant of the sort that leaves the vector in the order it has
SortPacksKeepsOrder(s) == s

RECURSIVE SortPacks(_)
\* std::sort(UnresolvedPacks.begin(), UnresolvedPacks.end())
SortPacks(s) ==
  IF s = <<>> THEN <<>>
  ELSE Let(Let(Tail(s), LAMBDA t : SortPacks(t)), LAMBDA r : InsertSorted(r, Head(s)))

RECURSIVE lower_bound(_, _, _, _)
\* std::lower_bound over positions First .. First+Count-1 of X, as the
\* standard library bisects (whether or not X is sorted)
lower_bound(X, First, Count, Val) ==
  IF Count <= 0 THEN First
  ELSE Let(Count \div 2, LAMBDA Half :
         IF PtrLess(X[First + Half], Val)
           THEN Let(<<First + Half + 1, Count - Half - 1>>, LAMBDA N :
                  lower_bound(X, N[1], N[2], Val))
           ELSE lower_bound(X, First, Half, Val))

binary_search(X, Val) ==
  Let(lower_bound(X, 1, Len(X), Val), LAMBDA It :
    It <= Len(X) /\ ~PtrLess(Val, X[It]))

RECURSIVE remove(_, _, _)
\* remove(X, ToRemove): ToRemove is increasing; each index, from the k-th
\* down to the first, is overwritten by the back element, which is popped
remove(X, ToRemove, k) ==
  IF k = 0 THEN X
  ELSE Let(SubSeq([X EXCEPT ![ToRemove[k]] = X[Len(X)]], 1, Len(X) - 1), LAMBDA Y :
         remove(Y, ToRemove, k - 1))

(***************************************************************************)
(* Frontier.                                                               *)
(***************************************************************************)
\* Frontier::Frontier(BB, Pkr); BBIt is the instruction the reverse
\* iterator points to, 0 when it is at rend
FrontierInit ==
  [BBIt |-> NumInsts,
   FreeInsts |-> Insts,
   UnresolvedScalars |-> {I \in Insts : I \in ExternalUsers(BB)},
   UsableInsts |-> {I \in Insts : users(I) = {} \/ isPHI(I)},
   UnresolvedPacks |-> <<>>]

isFree(F, I) == I \in F.FreeInsts

isUsable(F, I) == I \in F.UsableInsts

\* VPCtx->iter_values(UsableInsts): in the order of the scalar ids
usableInsts(F) == SetToSeq(F.UsableInsts)

numUnresolvedScalars(F) == Cardinality(F.UnresolvedScalars)

getNextFreeInst(F) == F.BBIt

\* the variant of freezeOneInst that makes every free operand usable,
\* whatever its other users
freezeOneInstOperandsUsable(F, I) ==
  [F EXCEPT !.FreeInsts = @ \ {I},
            !.UnresolvedScalars = @ \ {I},
            !.UsableInsts = (@ \ {I}) \cup {OI \in Range(operands(I)) :
                                              inBlock(OI) /\ OI # I /\ isFree(F, OI)}]

\* the variant of freezeOneInst that forgets to clear the free bit
freezeOneInstKeepsFree(F, I) ==
  [F EXCEPT !.UnresolvedScalars = @ \ {I}, !.UsableInsts = @ \ {I}]

freezeOneInst(F, I) ==
  Let([F EXCEPT !.FreeInsts = @ \ {I},
                !.UnresolvedScalars = @ \ {I},
                !.UsableInsts = @ \ {I}], LAMBDA F1 :
    [F1 EXCEPT !.UsableInsts =
       @ \cup {OI \in Range(operands(I)) :
                 /\ inBlock(OI)
                 /\ isFree(F1, OI)
                 /\ \A U \in users(OI) : ~isFree(F1, U)}])

RECURSIVE freezeInsts(_, _, _)
\* freezeOneInst on the instructions Is[k], Is[k+1], ..., in order
freezeInsts(F, Is, k) ==
  IF k > Len(Is) THEN F
  ELSE Let(freezeOneInst(F, Is[k]), LAMBDA F1 : freezeInsts(F1, Is, k + 1))

RECURSIVE freezeAsserts(_, _, _)
\* the assertion of freezeOneInst holds at each of these calls
freezeAsserts(F, Is, k) ==
  IF k > Len(Is) THEN TRUE
  ELSE IF ~isFree(F, Is[k]) THEN FALSE
  ELSE Let(freezeOneInst(F, Is[k]), LAMBDA F1 : freezeAsserts(F1, Is, k + 1))

RECURSIVE advanceBBItFrom(_, _)
advanceBBItFrom(F, It) ==
  IF It = 0 \/ It \in F.FreeInsts THEN It ELSE advanceBBItFrom(F, It - 1)

advanceBBIt(F) == [F EXCEPT !.BBIt = advanceBBItFrom(F, F.BBIt)]

resolved(F, OP) ==
  \A i \in 1..Len(OP) : OP[i] = 0 \/ ~inBlock(OP[i]) \/ ~isFree(F, OP[i])

\* the variant of advanceInplace(Instruction *) that removes only the packs
\* it broadcasts and leaves the other resolved packs in
advanceInplaceInstKeepsResolved(F, I) ==
  Let(advanceBBIt(freezeOneInst(F, I)), LAMBDA F1 :
    Let(SelectIdx(F1.UnresolvedPacks, LAMBDA OP : is_splat(OP) /\ OP[1] = I),
        LAMBDA ResolvedPackIds :
      [Frt |-> [F1 EXCEPT
                  !.UnresolvedScalars =
                     @ \cup {I2 \in Range(operands(I)) : inBlock(I2) /\ isFree(F1, I2)},
                  !.UnresolvedPacks =
                     SortPacks(remove(@, ResolvedPackIds, Len(ResolvedPackIds)))],
       Cost |-> 0,
       AssertOk |-> isFree(F, I)]))

\* Frontier::advanceInplace(Instruction *): the frontier and the cost
advanceInplaceInst(F, I) ==
  LET isSplatOf(OP) == is_splat(OP) /\ OP[1] = I
      LaneCost(OP) ==
        IF isSplatOf(OP) THEN getShuffleCost("Broadcast")
        ELSE SumSeq([l \in 1..Len(OP) |->
                       IF OP[l] = I
                         THEN 2 * getVectorInstrCost("InsertElement", l)
                         ELSE 0])
  IN  Let(advanceBBIt(freezeOneInst(F, I)), LAMBDA F1 :
        Let(SelectIdx(F1.UnresolvedPacks,
                      LAMBDA OP : isSplatOf(OP) \/ resolved(F1, OP)),
            LAMBDA ResolvedPackIds :
          [Frt |-> [F1 EXCEPT
                      !.UnresolvedScalars =
                         @ \cup {I2 \in Range(operands(I)) : inBlock(I2) /\ isFree(F1, I2)},
                      !.UnresolvedPacks =
                         SortPacks(remove(@, ResolvedPackIds, Len(ResolvedPackIds)))],
           Cost |-> SumSeq([i \in 1..Len(F1.UnresolvedPacks) |->
                              LaneCost(F1.UnresolvedPacks[i])]),
           AssertOk |-> isFree(F, I)]))

\* Frontier::resolveOperandPack: some lane of OP is produced by VP
resolveOperandPack(VP, OP) ==
  \E LaneId \in 1..Len(OP) :
    OP[LaneId] # 0 /\ inBlock(OP[LaneId]) /\ OP[LaneId] \in VP.Elements

CountOf(s, v) == Cardinality({i \in 1..Len(s) : s[i] = v})

\* std::is_permutation of two ranges of the same length
is_permutation(s, t) == \A v \in Range(s) \cup Range(t) : CountOf(s, v) = CountOf(t, v)

getGatherCost(VP, OpndPack) ==
  Let(getOrderedValues(VP), LAMBDA VPVals :
    IF isConstantPack(OpndPack) THEN 0
    ELSE IF Len(VPVals) = Len(OpndPack) /\ VPVals = OpndPack THEN 0
    ELSE IF Len(VPVals) = Len(OpndPack) /\ is_permutation(VPVals, OpndPack)
      THEN getShuffleCost("PermuteSingleSrc")
    ELSE 2)

RECURSIVE trackOperandPacks(_, _, _, _)
\* the loop over VP->getOperandPacks(), from pack k on, that pushes the
\* operand packs that are neither resolved nor found by the binary search
trackOperandPacks(F, UP, OPs, k) ==
  IF k > Len(OPs) THEN UP
  ELSE Let(IF ~resolved(F, OPs[k]) /\ ~binary_search(UP, OPs[k])
             THEN Append(UP, OPs[k]) ELSE UP, LAMBDA UP2 :
         trackOperandPacks(F, UP2, OPs, k + 1))

\* the replaced instructions in the order they are frozen: later first
sortedReplacedInsts(VP) ==
  Let(SetToSeq(getReplacedInsts(VP)), LAMBDA Asc :
    [i \in 1..Len(Asc) |-> Asc[Len(Asc) + 1 - i]])

\* Frontier::advanceInplace(const VectorPack *): the frontier and the cost
advanceInplacePack(F, VP) ==
  LET Produced(OP) == VP.Kind # "Store" /\ resolveOperandPack(VP, OP)
      InsertCost(OP) ==
        SumSeq([l \in 1..Len(OP) |->
                  IF OP[l] # 0 /\ ~isConstant(OP[l]) /\ ~inBlock(OP[l])
                    THEN 2 * getVectorInstrCost("InsertElement", l) ELSE 0])
  IN  Let(<<getOrderedValues(VP), sortedReplacedInsts(VP), getOperandPacks(VP)>>,
          LAMBDA V :
        Let(advanceBBIt(freezeInsts(F, V[2], 1)), LAMBDA F1 :
          Let(<<SelectIdx(F1.UnresolvedPacks,
                          LAMBDA OP : Produced(OP) /\ resolved(F1, OP)),
                trackOperandPacks(F1, F1.UnresolvedPacks, V[3], 1)>>, LAMBDA U :
            [Frt |-> [F1 EXCEPT !.UnresolvedPacks =
                        SortPacks(remove(U[2], U[1], Len(U[1])))],
             Cost |-> computeCost(VP)
                      + SumSeq([l \in 1..Len(V[1]) |->
                                  IF V[1][l] # 0 /\ isInstruction(V[1][l])
                                     /\ V[1][l] \in F.UnresolvedScalars
                                    THEN getVectorInstrCost("ExtractElement", l)
                                    ELSE 0])
                      + SumSeq([i \in 1..Len(F1.UnresolvedPacks) |->
                                  IF Produced(F1.UnresolvedPacks[i])
                                    THEN getGatherCost(VP, F1.UnresolvedPacks[i])
                                    ELSE 0])
                      + SumSeq([i \in 1..Len(V[3]) |-> InsertCost(V[3][i])]),
             AssertOk |-> freezeAsserts(F, V[2], 1)])))

\* a shuffle task: the operand pack it produces and the ones it consumes
ShuffleTask(Output, Inputs) == [Output |-> Output, Inputs |-> Inputs]

getShuffleTaskCost(ST) == getShuffleCost("PermuteSingleSrc")

\* Frontier::advanceInplace(ShuffleTask); both assertions hold when the
\* output is one of the (sorted) unresolved packs
advanceInplaceShuffle(F, ST) ==
  Let(lower_bound(F.UnresolvedPacks, 1, Len(F.UnresolvedPacks), ST.Output),
      LAMBDA It :
    [Frt |-> [F EXCEPT !.UnresolvedPacks =
                SortPacks(SubSeq([F.UnresolvedPacks EXCEPT
                                    ![It] = F.UnresolvedPacks[Len(F.UnresolvedPacks)]],
                                 1, Len(F.UnresolvedPacks) - 1)
                          \o ST.Inputs)],
     Cost |-> getShuffleTaskCost(ST),
     AssertOk |-> It <= Len(F.UnresolvedPacks) /\ F.UnresolvedPacks[It] = ST.Output])

(***************************************************************************)
(* Independence of a candidate lane from the lanes already chosen.         *)
(***************************************************************************)
checkIndependence(I, Elements, Depended) ==
  /\ Elements \cap getDepended(I) = {}
  /\ I \notin Depended

NoPack ==
  [Kind |-> "None", Producer |-> "", Matches |-> <<>>, Accesses |-> <<>>,
   Elements |-> {}, Depended |-> {}]

\* the lane counts tried for memory packs
VL == <<2, 4, 8, 16, 32>>

(***************************************************************************)
(* Seed packs: chains of consecutive accesses.                             *)
(***************************************************************************)
RECURSIVE EnumerateMem(_, _, _, _, _)
\* getSeedMemPacks::Enumerate
EnumerateMem(IsStore, Accesses, Elements, Depended, NumLanes) ==
  LET AccessDAG == IF IsStore THEN StoreDAG ELSE LoadDAG
      Back == Accesses[Len(Accesses)]
      Succs == SetToSeq(AccessDAG[Back])
  IN  IF Len(Accesses) = NumLanes
        THEN << IF IsStore THEN createStorePack(Accesses, Elements, Depended)
                           ELSE createLoadPack(Accesses, Elements, Depended) >>
      ELSE IF Back \notin DOMAIN AccessDAG THEN <<>>
      ELSE FlattenSeq([k \in 1..Len(Succs) |->
             IF ~checkIndependence(Succs[k], Elements, Depended) THEN <<>>
             ELSE EnumerateMem(IsStore, Append(Accesses, Succs[k]),
                               Elements \cup {Succs[k]},
                               Depended \cup getDepended(Succs[k]), NumLanes)])

getSeedMemPacks(IsStore, Access, NumLanes) ==
  EnumerateMem(IsStore, <<Access>>, {Access}, getDepended(Access), NumLanes)

RECURSIVE EnumerateStores(_, _, _, _, _)
\* getSeedStorePacks::Enumerate
EnumerateStores(F, Stores, Elements, Depended, NumLanes) ==
  LET Back == Stores[Len(Stores)]
      Succs == SetToSeq(StoreDAG[Back])
  IN  IF Len(Stores) = NumLanes
        THEN << createStorePack(Stores, Elements, Depended) >>
      ELSE IF Back \notin DOMAIN StoreDAG THEN <<>>
      ELSE FlattenSeq([k \in 1..Len(Succs) |->
             IF ~isUsable(F, Succs[k]) THEN <<>>
             ELSE IF ~checkIndependence(Succs[k], Elements, Depended) THEN <<>>
             ELSE EnumerateStores(F, Append(Stores, Succs[k]),
                                  Elements \cup {Succs[k]},
                                  Depended \cup getDepended(Succs[k]), NumLanes)])

getSeedStorePacks(F, SI, NumLanes) ==
  IF ~isUsable(F, SI) THEN <<>>
  ELSE EnumerateStores(F, <<SI>>, {SI}, getDepended(SI), NumLanes)

getSeedStorePack(F, SI, NumLanes) ==
  LET Seeds == getSeedStorePacks(F, SI, NumLanes)
  IN  IF Seeds = <<>> THEN NoPack ELSE Seeds[1]

(***************************************************************************)
(* PartialPack: a pack being filled lane by lane.                          *)
(***************************************************************************)
NoPP == [IsLoad |-> FALSE, IsStore |-> FALSE, NumLanes |-> 0, LaneId |-> 0,
         Producer |-> "", Elements |-> {}, Depended |-> {}, Loads |-> <<>>,
         Stores |-> <<>>, Matches |-> <<>>, FilledLanes |-> <<>>]

PartialPackMem(IsLoad, IsStore, NumLanes) ==
  [NoPP EXCEPT !.IsLoad = IsLoad, !.IsStore = IsStore, !.NumLanes = NumLanes]

PartialPackInst(Inst) ==
  [NoPP EXCEPT !.Producer = Inst, !.NumLanes = Len(InstBinding(Inst).LaneOps)]

isFilled(P) == P.LaneId = P.NumLanes

\* the variant of getUsableInsts that leaves the independence check out
getUsableInstsAnyUsable(P, F) ==
  LET AccessDAG == IF P.IsLoad THEN LoadDAG ELSE StoreDAG
      Cands == IF P.IsLoad \/ P.IsStore
                 THEN IF P.LaneId = 0 THEN SetToSeq(DOMAIN AccessDAG)
                      ELSE IF P.FilledLanes[P.LaneId] \notin DOMAIN AccessDAG
                        THEN <<>>
                      ELSE SetToSeq(AccessDAG[P.FilledLanes[P.LaneId]])
                 ELSE LET Ms == getMatches(InstBinding(P.Producer).LaneOps[P.LaneId + 1].Op)
                      IN  [k \in 1..Len(Ms) |-> Ms[k].Output]
  IN  SelectSeq(Cands, LAMBDA I : isInstruction(I) /\ isUsable(F, I))

getUsableInsts(P, F) ==
  LET AccessDAG == IF P.IsLoad THEN LoadDAG ELSE StoreDAG
      IsUsable(I) == isUsable(F, I) /\ checkIndependence(I, P.Elements, P.Depended)
      Cands == IF P.IsLoad \/ P.IsStore
                 THEN IF P.LaneId = 0 THEN SetToSeq(DOMAIN AccessDAG)
                      ELSE IF P.FilledLanes[P.LaneId] \notin DOMAIN AccessDAG
                        THEN <<>>
                      ELSE SetToSeq(AccessDAG[P.FilledLanes[P.LaneId]])
                 ELSE LET Ms == getMatches(InstBinding(P.Producer).LaneOps[P.LaneId + 1].Op)
                      IN  [k \in 1..Len(Ms) |-> Ms[k].Output]
  IN  SelectSeq(Cands, LAMBDA I : isInstruction(I) /\ IsUsable(I))

fillOneLane(P, I) ==
  LET Op == InstBinding(P.Producer).LaneOps[P.LaneId + 1].Op
  IN  [IsLoad |-> P.IsLoad, IsStore |-> P.IsStore, NumLanes |-> P.NumLanes,
       LaneId |-> P.LaneId + 1,
       Producer |-> P.Producer,
       Elements |-> P.Elements \cup {I},
       Depended |-> P.Depended \cup getDepended(I),
       Loads |-> IF isLoad(I) THEN Append(P.Loads, I) ELSE P.Loads,
       Stores |-> IF isStore(I) THEN Append(P.Stores, I) ELSE P.Stores,
       Matches |-> IF isLoad(I) \/ isStore(I) THEN P.Matches
                   ELSE Append(P.Matches, getMatchesForOutput(Op, I)[1]),
       FilledLanes |-> Append(P.FilledLanes, I)]

getPack(P) ==
  IF Cardinality(P.Elements) # P.NumLanes THEN NoPack
  ELSE IF P.IsLoad THEN createLoadPack(P.Loads, P.Elements, P.Depended)
  ELSE IF P.IsStore THEN createStorePack(P.Stores, P.Elements, P.Depended)
  ELSE createVectorPack(P.Matches, P.Elements, P.Depended, P.Producer)

RECURSIVE isPartialPackFeasible(_, _)
isPartialPackFeasible(P, F) ==
  IF isFilled(P) THEN TRUE
  ELSE \E I \in Range(getUsableInsts(P, F)) :
         \E NextPP \in {fillOneLane(P, I)} : isPartialPackFeasible(NextPP, F)

(***************************************************************************)
(* Extension packs: packs that produce an unresolved operand pack.         *)
(***************************************************************************)
RECURSIVE PowerOf2CeilFrom(_, _)
PowerOf2CeilFrom(n, p) == IF p >= n THEN p ELSE PowerOf2CeilFrom(n, 2 * p)

PowerOf2Ceil(n) == IF n = 0 THEN 0 ELSE PowerOf2CeilFrom(n, 1)

RECURSIVE extendLoadChain(_, _, _, _, _)
\* the while loop of findExtendingLoadPack, from the state it has reached
extendLoadChain(LoadSet, CurLoad, Loads, Elements, Depended) ==
  IF Cardinality(Elements) >= Cardinality(LoadSet) \/ CurLoad \notin DOMAIN LoadDAG
    THEN [Loads |-> Loads, Elements |-> Elements, Depended |-> Depended]
  ELSE Let(LoadDAG[CurLoad] \cap LoadSet, LAMBDA InSet :
         IF InSet = {}
           THEN extendLoadChain(LoadSet, Min(LoadDAG[CurLoad]), Append(Loads, 0),
                                Elements, Depended)
         ELSE IF ~checkIndependence(Min(InSet), Elements, Depended)
           THEN [Loads |-> Loads, Elements |-> Elements, Depended |-> Depended]
         ELSE Let(<<Append(Loads, Min(InSet)), Elements \cup {Min(InSet)},
                    Depended \cup getDepended(Min(InSet))>>, LAMBDA N :
                extendLoadChain(LoadSet, Min(InSet), N[1], N[2], N[3])))

findExtendingLoadPack(OP) ==
  Let({OP[i] : i \in {j \in 1..Len(OP) : OP[j] # 0 /\ isInstruction(OP[j])}},
      LAMBDA LoadSet :
    Let([i \in 1..Len(OP) |->
           IF OP[i] = 0 THEN [Loads |-> <<>>, Elements |-> {}, Depended |-> {}]
           ELSE extendLoadChain(LoadSet, OP[i], <<OP[i]>>, {OP[i]}, getDepended(OP[i]))],
        LAMBDA Chains :
      Let(SelectSeq([i \in 1..Len(OP) |-> i], LAMBDA i :
            OP[i] # 0 /\ Cardinality(Chains[i].Elements) = Cardinality(LoadSet)),
          LAMBDA Leads :
        IF Leads = <<>> THEN NoPack
        ELSE Let(Chains[Leads[1]], LAMBDA C :
               createLoadPack(
                 C.Loads \o [i \in 1..(IF Len(C.Loads) < PowerOf2Ceil(Len(OP))
                                         THEN PowerOf2Ceil(Len(OP)) - Len(C.Loads)
                                         ELSE 0) |-> 0],
                 C.Elements, C.Depended)))))

RECURSIVE scanLanes(_, _, _, _, _)
\* the loop over the lanes of an operand pack that findExtensionPacks,
\* findExtensionPacks2 and findExtensionPack share, from lane i on;
\* NullBreaks says whether a don't-care lane makes the pack inextensible
scanLanes(F, OP, i, NullBreaks, Acc) ==
  IF i > Len(OP) THEN Acc
  ELSE IF OP[i] = 0
    THEN IF NullBreaks THEN [Acc EXCEPT !.Extensible = FALSE]
         ELSE Let([Acc EXCEPT !.HasUndef = TRUE], LAMBDA A :
                scanLanes(F, OP, i + 1, NullBreaks, A))
  ELSE IF ~isInstruction(OP[i])
    THEN Let([Acc EXCEPT !.AllLoads = FALSE], LAMBDA A :
           scanLanes(F, OP, i + 1, NullBreaks, A))
  ELSE IF ~inBlock(OP[i]) \/ ~isUsable(F, OP[i])
    THEN [Acc EXCEPT !.Extensible = FALSE]
  ELSE IF ~checkIndependence(OP[i], Acc.Elements, Acc.Depended)
    THEN [Acc EXCEPT !.Extensible = FALSE]
  ELSE Let([Acc EXCEPT !.AllLoads = @ /\ isLoad(OP[i]),
                       !.Elements = @ \cup {OP[i]},
                       !.Depended = @ \cup getDepended(OP[i])], LAMBDA A :
         scanLanes(F, OP, i + 1, NullBreaks, A))

scanOperandPack(F, OP, NullBreaks) ==
  scanLanes(F, OP, 1, NullBreaks,
            [Elements |-> {}, Depended |-> {}, Extensible |-> TRUE,
             AllLoads |-> TRUE, HasUndef |-> FALSE])

\* the General packs of the catalog whose lanes match the lanes of OP
matchingPacks(OP, Elements, Depended) ==
  LET Lanes(Inst) ==
        [i \in 1..Len(OP) |-> getMatchesForOutput(InstBinding(Inst).LaneOps[i].Op, OP[i])]
      Fits(Inst) ==
        /\ Len(InstBinding(Inst).LaneOps) = Len(OP)
        /\ \A i \in 1..Len(OP) : Lanes(Inst)[i] # <<>>
  IN  Let(SelectSeq(getInsts, Fits), LAMBDA Fitting :
        [k \in 1..Len(Fitting) |->
           createVectorPack([i \in 1..Len(OP) |-> Lanes(Fitting[k])[i][1]],
                            Elements, Depended, Fitting[k])])

extensionsOf(F, OP, NullBreaks) ==
  Let(scanOperandPack(F, OP, NullBreaks), LAMBDA S :
    IF ~S.Extensible THEN <<>>
    ELSE IF S.AllLoads
      THEN Let(findExtendingLoadPack(OP), LAMBDA LoadVP :
             IF LoadVP = NoPack THEN <<>> ELSE <<LoadVP>>)
    ELSE matchingPacks(OP, S.Elements, S.Depended))

findExtensionPacks(F) ==
  FlattenSeq([i \in 1..Len(F.UnresolvedPacks) |->
                extensionsOf(F, F.UnresolvedPacks[i], FALSE)])

(***************************************************************************)
(* Load coalescing.                                                        *)
(***************************************************************************)
\* Packer::getLoadInfo: the object a load addresses and its slot in it
LayoutInfo(I) == [Leader |-> InstAddr(BB)[I][1], Id |-> InstAddr(BB)[I][2]]

EmptySlotSet ==
  [Slots |-> <<>>, MinId |-> 0, MaxId |-> 0, NumElems |-> 0, HasValue |-> FALSE]

\* SlotSet::operator[]; the slots are numbered from 0
SlotAt(SS, i) == IF i + 1 \in DOMAIN SS.Slots THEN SS.Slots[i + 1] ELSE 0

\* SlotSet::try_insert: whether the load went in, and the set afterwards
try_insert(SS, i, LI) ==
  Let(IF i >= Len(SS.Slots)
        THEN SS.Slots \o [k \in 1..(i + 1 - Len(SS.Slots)) |-> 0]
        ELSE SS.Slots, LAMBDA Resized :
    IF Resized[i + 1] = 0 \/ Resized[i + 1] = LI
      THEN [Ok |-> TRUE,
            Set |-> [Slots |-> [Resized EXCEPT ![i + 1] = LI],
                     MinId |-> IF SS.HasValue THEN Min({i, SS.MinId}) ELSE i,
                     MaxId |-> IF SS.HasValue THEN Max({i, SS.MaxId}) ELSE i,
                     NumElems |-> SS.NumElems + 1,
                     HasValue |-> TRUE]]
      ELSE [Ok |-> FALSE, Set |-> [SS EXCEPT !.Slots = Resized]])

RECURSIVE insertAll(_, _, _)
\* try_insert of the loads LIs[k], LIs[k+1], ..., until one fails
insertAll(SS, LIs, k) ==
  IF k > Len(LIs) THEN [Ok |-> TRUE, Set |-> SS]
  ELSE Let(try_insert(SS, LayoutInfo(LIs[k]).Id, LIs[k]), LAMBDA R :
         IF R.Ok THEN insertAll(R.Set, LIs, k + 1) ELSE R)

\* utilization() > utilization() of two slot sets, without division
utilizationGreater(A, B) ==
  A.NumElems * (B.MaxId - B.MinId + 1) > B.NumElems * (A.MaxId - A.MinId + 1)

RECURSIVE coalesce(_, _, _, _)
\* the loop of tryCoalesceLoads over the other packs, from pack k on
coalesce(Leader, Acc, OtherPacks, k) ==
  IF k > Len(OtherPacks) THEN Acc
  ELSE Let(OtherPacks[k], LAMBDA Other :
         IF \/ LayoutInfo(getOrderedValues(Other)[1]).Leader # Leader
            \/ Acc.Depended \cap Other.Elements # {}
            \/ Other.Depended \cap Acc.Elements # {}
           THEN coalesce(Leader, Acc, OtherPacks, k + 1)
         ELSE Let(insertAll(Acc.Slots, SetToSeq(Other.Elements), 1), LAMBDA Temp :
                IF Temp.Ok /\ utilizationGreater(Temp.Set, Acc.Slots)
                  THEN Let([Slots |-> Temp.Set,
                            Depended |-> Acc.Depended \cup Other.Depended,
                            Elements |-> Acc.Elements \cup Other.Elements],
                           LAMBDA A : coalesce(Leader, A, OtherPacks, k + 1))
                  ELSE coalesce(Leader, Acc, OtherPacks, k + 1)))

tryCoalesceLoads(MainPack, OtherPacks) ==
  IF Len(getOrderedValues(MainPack)) = Cardinality(MainPack.Elements) THEN NoPack
  ELSE Let(coalesce(LayoutInfo(Min(MainPack.Elements)).Leader,
                    [Slots |-> insertAll(EmptySlotSet, SetToSeq(MainPack.Elements), 1).Set,
                     Depended |-> MainPack.Depended, Elements |-> MainPack.Elements],
                    OtherPacks, 1), LAMBDA R :
         IF R.Elements = MainPack.Elements THEN NoPack
         ELSE createLoadPack([k \in 1..(R.Slots.MaxId - R.Slots.MinId) |->
                                SlotAt(R.Slots, R.Slots.MinId + k - 1)],
                             R.Elements, R.Depended))

RECURSIVE scanUnresolvedPacks(_, _, _, _)
\* the loop of findExtensionPacks2 over the unresolved packs, from pack k
\* on: it stops at the first operand pack that General packs extend
scanUnresolvedPacks(F, OPs, k, LoadExtensions) ==
  IF k > Len(OPs) THEN [Extensions |-> <<>>, LoadExtensions |-> LoadExtensions]
  ELSE Let(scanOperandPack(F, OPs[k], FALSE), LAMBDA S :
         IF ~S.Extensible THEN scanUnresolvedPacks(F, OPs, k + 1, LoadExtensions)
         ELSE IF S.AllLoads
           THEN Let(findExtendingLoadPack(OPs[k]), LAMBDA LoadVP :
                  Let(IF LoadVP # NoPack THEN Append(LoadExtensions, LoadVP)
                      ELSE LoadExtensions, LAMBDA L :
                    scanUnresolvedPacks(F, OPs, k + 1, L)))
         ELSE IF S.HasUndef THEN scanUnresolvedPacks(F, OPs, k + 1, LoadExtensions)
         ELSE Let(matchingPacks(OPs[k], S.Elements, S.Depended), LAMBDA General :
                IF General # <<>>
                  THEN [Extensions |-> General, LoadExtensions |-> LoadExtensions]
                  ELSE scanUnresolvedPacks(F, OPs, k + 1, LoadExtensions)))

findExtensionPacks2(F) ==
  Let(scanUnresolvedPacks(F, F.UnresolvedPacks, 1, <<>>), LAMBDA R :
    IF R.Extensions # <<>> THEN R.Extensions
    ELSE IF R.LoadExtensions # <<>>
      THEN Let(tryCoalesceLoads(R.LoadExtensions[1], Tail(R.LoadExtensions)),
               LAMBDA Coalesced :
             IF Coalesced # NoPack THEN <<Coalesced, R.LoadExtensions[1]>>
             ELSE <<R.LoadExtensions[1]>>)
    ELSE <<>>)

findExtensionPack(F) ==
  Let(findExtensionPacks2(F), LAMBDA Exts :
    IF Exts = <<>> THEN NoPack ELSE Exts[1])

(***************************************************************************)
(* Frontier::advance: the three overloads copy the frontier and advance    *)
(* the copy.  This is the frontier the call was made on as it is after the *)
(* call, Next the frontier returned.                                       *)
(***************************************************************************)
\* the variant of advance(Instruction *) that advances the frontier itself
advanceInstInPlace(F, I) ==
  LET R == advanceInplaceInst(F, I)
  IN  [This |-> R.Frt, Next |-> R.Frt, Cost |-> R.Cost, AssertOk |-> R.AssertOk]

advanceInst(F, I) ==
  LET R == advanceInplaceInst(F, I)
  IN  [This |-> F, Next |-> R.Frt, Cost |-> R.Cost, AssertOk |-> R.AssertOk]

advancePack(F, VP) ==
  LET R == advanceInplacePack(F, VP)
  IN  [This |-> F, Next |-> R.Frt, Cost |-> R.Cost, AssertOk |-> R.AssertOk]

advanceShuffle(F, ST) ==
  LET R == advanceInplaceShuffle(F, ST)
  IN  [This |-> F, Next |-> R.Frt, Cost |-> R.Cost, AssertOk |-> R.AssertOk]

\* UCTNode::isTerminal
isTerminalFrt(F) == F.UnresolvedPacks = <<>> /\ numUnresolvedScalars(F) = 0

(***************************************************************************)
(* The search over one block, one transition at a time: the callers of     *)
(* advance (node expansion, rollout, the bottom-up solver) move from the   *)
(* current frontier Frt, possibly through a partial pack PP, to the        *)
(* frontier advance returns.  last records the transition taken and what   *)
(* it cost; assertFailed that an assertion of the frontier would have      *)
(* failed (the run goes on as in a build without assertions).              *)
(***************************************************************************)
NoShuffle == ShuffleTask(<<>>, <<>>)

Transition(Op, I, VP, ST, Cost) ==
  [op |-> Op, I |-> I, VP |-> VP, ST |-> ST, Cost |-> Cost]

Reverse(s) == [i \in 1..Len(s) |-> s[Len(s) + 1 - i]]

\* the MaxNumLanes UCTSearch::run gives UCTNode::expand without a policy
MaxNumLanes == 8

\* the lane counts optimizeBottomUp seeds store packs with
SeedVL == <<64, 32, 16, 8, 4, 2>>

\* the number of shuffle tasks a run of the search applies at most
MaxShuffles == 1

FrontierStart(b) ==
  /\ BB = b
  /\ Frt = FrontierInit
  /\ Src = FrontierInit
  /\ PP = NoPP
  /\ last = Transition("none", 0, NoPack, NoShuffle, 0)
  /\ shuffles = 0
  /\ assertFailed = FALSE

Step(R, T) ==
  /\ Src' = R.This
  /\ Frt' = R.Next
  /\ last' = [T EXCEPT !.Cost = R.Cost]
  /\ assertFailed' = (assertFailed \/ ~R.AssertOk)
  /\ PP' = NoPP
  /\ shuffles' = IF T.op = "shuffle" THEN shuffles + 1 ELSE shuffles
  /\ UNCHANGED <<BB, searchVars, planVars, otherVars>>

\* expand, the rollout and the solvers scalarize a usable instruction
Scalarize ==
  /\ PP = NoPP
  /\ \E I \in Frt.UsableInsts :
       \E R \in {advanceInst(Frt, I)} :
         Step(R, Transition("inst", I, NoPack, NoShuffle, 0))

\* optimizeBottomUp commits the seed store pack of a store and a lane count
Seed ==
  /\ PP = NoPP
  /\ \E SI \in DOMAIN StoreDAG, k \in 1..Len(SeedVL) :
       \E VP \in {getSeedStorePack(Frt, SI, SeedVL[k])} :
         /\ VP # NoPack
         /\ \E R \in {advancePack(Frt, VP)} :
              Step(R, Transition("pack", 0, VP, NoShuffle, 0))

\* the rollout commits one of the extension packs
Extend ==
  /\ PP = NoPP
  /\ \E Exts \in {findExtensionPacks(Frt)} :
       \E k \in 1..Len(Exts) :
         \E R \in {advancePack(Frt, Exts[k])} :
           Step(R, Transition("pack", 0, Exts[k], NoShuffle, 0))

\* the solver advances by each pack findExtensionPacks2 returns
Extend2 ==
  /\ PP = NoPP
  /\ \E Exts \in {findExtensionPacks2(Frt)} :
       \E k \in 1..Len(Exts) :
         \E R \in {advancePack(Frt, Exts[k])} :
           Step(R, Transition("pack", 0, Exts[k], NoShuffle, 0))

\* expand starts the feasible partial packs
StartPP ==
  /\ PP = NoPP
  /\ \E P \in {PartialPackMem(TRUE, FALSE, VL[k]) : k \in {j \in 1..Len(VL) : VL[j] <= MaxNumLanes}}
            \cup {PartialPackMem(FALSE, TRUE, VL[k]) : k \in {j \in 1..Len(VL) : VL[j] <= MaxNumLanes}}
            \cup {PartialPackInst(getInsts[k]) : k \in {j \in 1..Len(getInsts) :
                    Len(InstBinding(getInsts[j]).LaneOps) <= MaxNumLanes}} :
       /\ isPartialPackFeasible(P, Frt) = TRUE
       /\ PP' = P
       /\ last' = Transition("pp", 0, NoPack, NoShuffle, 0)
       /\ UNCHANGED <<BB, Frt, Src, shuffles, assertFailed, searchVars, planVars, otherVars>>

\* expand fills one lane of the partial pack; the pack is not complete
FillLane ==
  /\ PP # NoPP
  /\ ~isFilled(PP)
  /\ \E Usable \in {getUsableInsts(PP, Frt)} :
       \E k \in 1..Len(Usable) :
         \E NextPP \in {fillOneLane(PP, Usable[k])} :
           /\ isPartialPackFeasible(NextPP, Frt) = TRUE
           /\ getPack(NextPP) = NoPack
           /\ PP' = NextPP
           /\ last' = Transition("fill", Usable[k], NoPack, NoShuffle, 0)
           /\ UNCHANGED <<BB, Frt, Src, shuffles, assertFailed, searchVars, planVars, otherVars>>

\* expand fills the last lane and commits the pack
FillLaneCommit ==
  /\ PP # NoPP
  /\ ~isFilled(PP)
  /\ \E Usable \in {getUsableInsts(PP, Frt)} :
       \E k \in 1..Len(Usable) :
         \E NextPP \in {fillOneLane(PP, Usable[k])} :
           \E VP \in {getPack(NextPP)} :
             /\ isPartialPackFeasible(NextPP, Frt) = TRUE
             /\ VP # NoPack
             /\ \E R \in {advancePack(Frt, VP)} :
                  Step(R, Transition("pack", 0, VP, NoShuffle, 0))

\* a shuffle task replaces an unresolved operand pack by the packs it is
\* shuffled from: the pack reversed, or its even and its odd lanes
Shuffle ==
  /\ PP = NoPP
  /\ shuffles < MaxShuffles
  /\ \E i \in 1..Len(Frt.UnresolvedPacks) :
       \E Inputs \in {<<Reverse(Frt.UnresolvedPacks[i])>>,
                      <<even(Frt.UnresolvedPacks[i]), odd(Frt.UnresolvedPacks[i])>>} :
         \E ST \in {ShuffleTask(Frt.UnresolvedPacks[i], Inputs)} :
           /\ Len(ST.Output) >= 2
           /\ \E R \in {advanceShuffle(Frt, ST)} :
                Step(R, Transition("shuffle", 0, NoPack, ST, 0))

Init == (\E b \in Blocks : FrontierStart(b)) /\ NoSearch /\ NoPlan /\ NoOther

Next ==
  \/ Scalarize
  \/ Seed
  \/ Extend
  \/ Extend2
  \/ StartPP
  \/ FillLane
  \/ FillLaneCommit
  \/ Shuffle

vars == <<frontierVars, searchVars, planVars, otherVars>>

Spec == Init /\ [][Next]_vars

(***************************************************************************)
(* Properties of the frontier.                                             *)
(***************************************************************************)
isAdvance(T) == T.op \in {"inst", "pack", "shuffle"}

NonNull(s) == SelectSeq(s, LAMBDA V : V # 0)

inBlockLanes(OP) == {OP[l] : l \in {k \in 1..Len(OP) : inBlock(OP[k])}}

\* C1: advance(inst), advance(pack) and advance(shuffle) leave the frontier
\* they are called on as it was (cursor, free, usable, unresolved scalars
\* and unresolved packs), and the frontier they return is advanceInplace
\* applied to a copy of it.
AdvanceLeavesSourceUnchanged ==
  [][isAdvance(last') =>
       /\ Src' = Frt
       /\ last'.op = "inst" => Frt' = advanceInplaceInst(Frt, last'.I).Frt
       /\ last'.op = "pack" => Frt' = advanceInplacePack(Frt, last'.VP).Frt
       /\ last'.op = "shuffle" => Frt' = advanceInplaceShuffle(Frt, last'.ST).Frt]_vars

\* an advance has returned a successor that differs from its source
AdvanceReturnedNewFrontier ==
  /\ last.op = "pack"
  /\ Src.FreeInsts # Frt.FreeInsts
  /\ Src.UnresolvedPacks # Frt.UnresolvedPacks
  /\ Src.BBIt # Frt.BBIt

\* C2: when the instructions an advance(inst) or advance(pack) freezes are
\* free, the successor's free set is the source's minus exactly the
\* scalarized instruction, or exactly the pack's replaced instructions, and
\* no transition adds a member to free.
FreeLosesExactlyTheFrozen ==
  [][/\ (last'.op = "inst" /\ last'.I \in Frt.FreeInsts)
          => Frt'.FreeInsts = Frt.FreeInsts \ {last'.I}
     /\ (last'.op = "pack" /\ getReplacedInsts(last'.VP) \subseteq Frt.FreeInsts)
          => Frt'.FreeInsts = Frt.FreeInsts \ getReplacedInsts(last'.VP)
     /\ Frt'.FreeInsts \subseteq Frt.FreeInsts]_vars

\* a pack that replaces several free instructions has been committed
PackFrozeSeveralInsts ==
  /\ last.op = "pack"
  /\ Cardinality(getReplacedInsts(last.VP)) >= 2
  /\ getReplacedInsts(last.VP) \subseteq Src.FreeInsts
  /\ Frt.FreeInsts = Src.FreeInsts \ getReplacedInsts(last.VP)

\* C3 as stated: every in-block instruction in a lane of an unresolved
\* operand pack is free.
UnresolvedPackElementsAreFree ==
  \A i \in 1..Len(Frt.UnresolvedPacks) :
    inBlockLanes(Frt.UnresolvedPacks[i]) \subseteq Frt.FreeInsts

\* C3 as amended: an unresolved operand pack may keep frozen instructions
\* in some lanes, but after advance(inst) every pack left in unresolved
\* packs has a free in-block lane, and after advance(pack) so has every
\* pack the transition added and every pack with a lane the committed pack
\* produces.
UnresolvedPacksKeepAFreeLane ==
  [][/\ last'.op = "inst" =>
          \A i \in 1..Len(Frt'.UnresolvedPacks) :
            inBlockLanes(Frt'.UnresolvedPacks[i]) \cap Frt'.FreeInsts # {}
     /\ last'.op = "pack" =>
          \A i \in 1..Len(Frt'.UnresolvedPacks) :
            (\/ Frt'.UnresolvedPacks[i] \notin Range(Frt.UnresolvedPacks)
             \/ inBlockLanes(Frt'.UnresolvedPacks[i]) \cap last'.VP.Elements # {})
              => inBlockLanes(Frt'.UnresolvedPacks[i]) \cap Frt'.FreeInsts # {}]_vars

\* scalarizing one lane has left an operand pack unresolved with that lane
\* frozen and another one free
PackPartlyScalarized ==
  /\ last.op = "inst"
  /\ \E i \in 1..Len(Frt.UnresolvedPacks) :
       /\ last.I \in inBlockLanes(Frt.UnresolvedPacks[i])
       /\ inBlockLanes(Frt.UnresolvedPacks[i]) \cap Frt.FreeInsts # {}

\* C4: every pack a pack producer builds has as many elements as its
\* ordered values have non-null entries.
PackElementsMatchOrderedValues ==
  last.op = "pack" =>
    Cardinality(last.VP.Elements) = Len(NonNull(getOrderedValues(last.VP)))

\* C5: every instruction a committed pack freezes is free at the moment of
\* the commit: the assertion of freezeOneInst never fails.
FreezeAssertionNeverFails == ~assertFailed

independentValues(Values) ==
  \A u \in Range(Values), v \in Range(Values) :
    (u # v /\ u # 0 /\ v # 0) => (u \notin getDepended(v) /\ v \notin getDepended(u))

\* C6: no two distinct values of a committed pack depend on each other,
\* transitively; so for the packs of the seed chains, of partial-pack
\* filling and of extension from an unresolved operand pack.
CommittedPackValuesIndependent ==
  /\ last.op = "pack" => independentValues(getOrderedValues(last.VP))
  /\ last.op = "none" =>
       \A A \in DOMAIN LoadDAG, k \in 1..2 :
         \A j \in 1..Len(getSeedMemPacks(FALSE, A, VL[k])) :
           independentValues(getOrderedValues(getSeedMemPacks(FALSE, A, VL[k])[j]))

\* a pack is committed in the block whose other chains of consecutive
\* accesses are dependent
IndependentPackAmongDependentChains ==
  /\ BB = 3
  /\ last.op = "pack"
  /\ Len(NonNull(getOrderedValues(last.VP))) >= 2
  /\ \E A \in DOMAIN LoadDAG : \E B \in LoadDAG[A] : A \in getDepended(B)

\* C13: after every advanceInplace (of an instruction, a pack or a shuffle
\* task) the unresolved operand packs are in ascending order of their
\* interned pointers: no pack stands before one of a smaller pointer.
UnresolvedPacksSorted ==
  \A i \in 1..Len(Frt.UnresolvedPacks), j \in 1..Len(Frt.UnresolvedPacks) :
    i < j => ~PtrLess(Frt.UnresolvedPacks[j], Frt.UnresolvedPacks[i])

\* an advance has left several distinct unresolved packs, the one it
\* tracked last not at the back
SeveralUnresolvedPacksAfterAdvance ==
  /\ isAdvance(last)
  /\ Len(Frt.UnresolvedPacks) >= 2
  /\ PtrLess(Frt.UnresolvedPacks[1], Frt.UnresolvedPacks[Len(Frt.UnresolvedPacks)])
  /\ Len(Src.UnresolvedPacks) < Len(Frt.UnresolvedPacks)
  /\ Frt.UnresolvedPacks[Len(Frt.UnresolvedPacks)] \in Range(Src.UnresolvedPacks)

\* C18: in every frontier reached by advance(inst) and advance(pack) an
\* instruction is usable exactly when it is free and is a phi or has no
\* free user in the block; so the usable instructions are free.
UsableIffFreeAndUsersFrozen ==
  /\ \A I \in Insts :
       isUsable(Frt, I) <=>
         (isFree(Frt, I) /\ (isPHI(I) \/ \A U \in users(I) : ~isFree(Frt, U)))
  /\ Frt.UsableInsts \subseteq Frt.FreeInsts

\* a pack commit has frozen the last free user of an instruction, which
\* became usable, while another free instruction still has a free user
PackCommitMadeOperandUsable ==
  /\ last.op = "pack"
  /\ \E I \in Insts : isUsable(Frt, I) /\ ~isUsable(Src, I) /\ users(I) # {}
  /\ \E J \in Insts : isFree(Frt, J) /\ ~isUsable(Frt, J)

\* what scalarizing I costs over the unresolved packs X when a lane equal
\* to I is charged Weight times the insert cost of the lane: a pack all of
\* whose lanes are I costs a broadcast, a pack without I nothing
scalarizeCost(X, I, Weight) ==
  SumSeq([k \in 1..Len(X) |->
            IF I \notin Range(X[k]) THEN 0
            ELSE IF Range(X[k]) = {I} THEN getShuffleCost("Broadcast")
            ELSE Weight * SumSeq([l \in 1..Len(X[k]) |->
                   IF X[k][l] = I THEN getVectorInstrCost("InsertElement", l) ELSE 0])])

\* the packs of X that have an in-block lane free in F, by pointer
packsWithFreeLane(X, F) ==
  SortPacks(SelectSeq(X, LAMBDA OP : \E V \in inBlockLanes(OP) : isFree(F, V)))

\* C19 as stated: the cost of advanceInplace(inst) is, over the unresolved
\* packs containing inst, the broadcast cost for a splat of inst and
\* otherwise the insert cost once per lane equal to inst; a pack leaves
\* unresolved_packs exactly when its in-block lanes are all frozen.
ScalarizeChargesInsertOncePerLane ==
  last.op = "inst" =>
    /\ last.Cost = scalarizeCost(Src.UnresolvedPacks, last.I, 1)
    /\ Frt.UnresolvedPacks = packsWithFreeLane(Src.UnresolvedPacks, Frt)

\* C19 as amended: the cost of advanceInplace(inst) is, over the unresolved
\* packs containing inst, the broadcast cost for a splat of inst and
\* otherwise twice the insert cost per lane equal to inst; a pack leaves
\* unresolved_packs exactly when its in-block lanes are all frozen.
ScalarizeChargesInsertTwicePerLane ==
  last.op = "inst" =>
    /\ last.Cost = scalarizeCost(Src.UnresolvedPacks, last.I, 2)
    /\ Frt.UnresolvedPacks = packsWithFreeLane(Src.UnresolvedPacks, Frt)

\* an instruction in a lane of one unresolved pack, and in no lane of
\* another, has been scalarized; a pack left and a pack stayed
ScalarizedLaneOfUnresolvedPack ==
  /\ last.op = "inst"
  /\ \E OP \in Range(Src.UnresolvedPacks) : last.I \in Range(OP) /\ Range(OP) # {last.I}
  /\ \E OP \in Range(Src.UnresolvedPacks) : last.I \notin Range(OP)
  /\ Frt.UnresolvedPacks # <<>>
  /\ Len(Frt.UnresolvedPacks) < Len(Src.UnresolvedPacks)

\* C20: a partial pack filled lane by lane from getUsableInsts has as many
\* elements as filled lanes (no instruction fills two lanes), so it gives
\* a pack exactly when all its lanes are filled.
PartialPackElementsCountLanes ==
  PP # NoPP =>
    /\ Cardinality(PP.Elements) = PP.LaneId
    /\ (getPack(PP) # NoPack) <=> isFilled(PP)

(***************************************************************************)
(* The tree search: UCTNode, UCTNodeFactory and UCTSearch::run.            *)
(***************************************************************************)
\* the number of iterations the runs on one root are called with in all
MaxNumSimulations == 5

\* the number of calls of run on one root
MaxRuns == 2

\* the visit counts after which a leaf is expanded
ExpandThresholds == {0, 1}

\* the costs the evaluation of a leaf returns
LeafCosts == {0, 1}

\* the blocks searched
SearchBlocks == {1, 4, 5}

UCTNode(F, P) ==
  [Frt |-> F, PP |-> P, Transitions |-> <<>>, Count |-> 0, TotalCost |-> 0]

UCTNodeTransition(NextNode, Cost) == [Next |-> NextNode, Cost |-> Cost, Count |-> 0]

visitCount(X) == X.Count

visited(T) == T.Count > 0

expanded(N) == N.Transitions # <<>>

isTerminal(N) == N.PP = NoPP /\ isTerminalFrt(N.Frt)

update(N, Cost) == [N EXCEPT !.TotalCost = @ + Cost, !.Count = @ + 1]

\* UCTNodeFactory::getNode(Frt): the node of an equal frontier if there is
\* one, a new node otherwise
getNode(Ns, F) ==
  Let({i \in 1..Len(Ns) : Ns[i].PP = NoPP /\ Ns[i].Frt = F}, LAMBDA Found :
    IF Found # {} THEN [Nodes |-> Ns, Id |-> Min(Found)]
    ELSE [Nodes |-> Append(Ns, UCTNode(F, NoPP)), Id |-> Len(Ns) + 1])

\* UCTNodeFactory::getNode(Frt, PP)
getNodePP(Ns, F, P) == [Nodes |-> Append(Ns, UCTNode(F, P)), Id |-> Len(Ns) + 1]

Child(Kind, F, P, Cost) == [Kind |-> Kind, Frt |-> F, PP |-> P, Cost |-> Cost]

\* the templates expand starts a partial pack from, in its order
partialPackTemplates(MaxLanes) ==
  Let(SelectSeq(VL, LAMBDA i : i <= MaxLanes), LAMBDA Lanes :
    [k \in 1..Len(Lanes) |-> PartialPackMem(TRUE, FALSE, Lanes[k])]
    \o [k \in 1..Len(Lanes) |-> PartialPackMem(FALSE, TRUE, Lanes[k])]
    \o Let(SelectSeq(getInsts, LAMBDA Inst : Len(InstBinding(Inst).LaneOps) <= MaxLanes),
           LAMBDA Bindings : [k \in 1..Len(Bindings) |-> PartialPackInst(Bindings[k])]))

\* the children UCTNode::expand gives a node without a partial pack
frontierChildren(F, MaxLanes) ==
  Let(usableInsts(F), LAMBDA Usable :
    [k \in 1..Len(Usable) |->
       Let(advanceInst(F, Usable[k]), LAMBDA R : Child("frt", R.Next, NoPP, R.Cost))])
  \o Let(SelectSeq(partialPackTemplates(MaxLanes),
                   LAMBDA NewPP : isPartialPackFeasible(NewPP, F)),
         LAMBDA Feasible : [k \in 1..Len(Feasible) |-> Child("pp", F, Feasible[k], 0)])

\* the children UCTNode::expand gives a node filling a partial pack
partialPackChildren(F, P) ==
  Let(getUsableInsts(P, F), LAMBDA Usable :
    Let(SelectSeq([k \in 1..Len(Usable) |-> fillOneLane(P, Usable[k])],
                  LAMBDA NextPP : isPartialPackFeasible(NextPP, F)),
        LAMBDA Feasible :
      [k \in 1..Len(Feasible) |->
         Let(getPack(Feasible[k]), LAMBDA VP :
           IF VP # NoPack
             THEN Let(advancePack(F, VP), LAMBDA R : Child("frt", R.Next, NoPP, R.Cost))
             ELSE Child("pp", F, Feasible[k], 0))]))

RECURSIVE addTransitions(_, _, _, _)
\* a transition of node n to the node of each of the children Cs[k], ...
addTransitions(Ns, n, Cs, k) ==
  IF k > Len(Cs) THEN Ns
  ELSE Let(IF Cs[k].Kind = "frt" THEN getNode(Ns, Cs[k].Frt)
           ELSE getNodePP(Ns, Cs[k].Frt, Cs[k].PP), LAMBDA G :
         Let([G.Nodes EXCEPT ![n].Transitions =
                Append(G.Nodes[n].Transitions, UCTNodeTransition(G.Id, Cs[k].Cost))],
             LAMBDA Ns1 : addTransitions(Ns1, n, Cs, k + 1)))

\* UCTNode::expand on node n
expand(Ns, n, MaxLanes) ==
  Let(IF Ns[n].PP = NoPP THEN frontierChildren(Ns[n].Frt, MaxLanes)
      ELSE partialPackChildren(Ns[n].Frt, Ns[n].PP), LAMBDA Cs :
    addTransitions(Ns, n, Cs, 1))

FullTransition(Parent, T) == [Parent |-> Parent, T |-> T]

\* the transitions the selection may take at an expanded node: the first
\* one not visited yet; when all are visited the one of the highest score
\* (an oracle: any of them)
bestTransitions(N) ==
  Let({i \in 1..Len(N.Transitions) : ~visited(N.Transitions[i])}, LAMBDA Unvisited :
    IF Unvisited # {} THEN {Min(Unvisited)} ELSE 1..Len(N.Transitions))

RECURSIVE selectPaths(_, _)
\* the paths the selection may follow from node n down to a leaf
selectPaths(Ns, n) ==
  IF ~expanded(Ns[n]) THEN {<<>>}
  ELSE UNION {{<<FullTransition(n, i)>> \o Path :
                 Path \in selectPaths(Ns, Ns[n].Transitions[i].Next)} :
              i \in bestTransitions(Ns[n])}

\* the node a path from the root ends in
leafOf(Ns, Root, Path) ==
  IF Path = <<>> THEN Root
  ELSE Ns[Path[Len(Path)].Parent].Transitions[Path[Len(Path)].T].Next

RECURSIVE backpropagateNodes(_, _, _, _)
\* the loop of the backpropagation when it leaves the transitions' counts
backpropagateNodes(Ns, Path, k, TotalCost) ==
  IF k = 0 THEN Ns
  ELSE Let(TotalCost + Ns[Path[k].Parent].Transitions[Path[k].T].Cost, LAMBDA Total :
         Let([Ns EXCEPT ![Path[k].Parent] = update(Ns[Path[k].Parent], Total)],
             LAMBDA Ns1 : backpropagateNodes(Ns1, Path, k - 1, Total)))

RECURSIVE backpropagatePath(_, _, _, _)
\* the loop of the backpropagation from the k-th transition of the path up
backpropagatePath(Ns, Path, k, TotalCost) ==
  IF k = 0 THEN Ns
  ELSE Let(TotalCost + Ns[Path[k].Parent].Transitions[Path[k].T].Cost, LAMBDA Total :
         Let([Ns EXCEPT ![Path[k].Parent] =
                [update(Ns[Path[k].Parent], Total) EXCEPT
                   !.Transitions[Path[k].T].Count = @ + 1]], LAMBDA Ns1 :
           backpropagatePath(Ns1, Path, k - 1, Total)))

\* the variant of the backpropagation that counts the visits of the nodes only
backpropagateNodesOnly(Ns, CurNode, Path, LeafCost) ==
  Let([Ns EXCEPT ![CurNode] = update(Ns[CurNode], LeafCost)], LAMBDA Ns1 :
    backpropagateNodes(Ns1, Path, Len(Path), LeafCost))

\* the variant of the backpropagation that leaves the leaf as it is
backpropagateAboveLeaf(Ns, CurNode, Path, LeafCost) ==
  backpropagatePath(Ns, Path, Len(Path), LeafCost)

\* the backpropagation of run
backpropagate(Ns, CurNode, Path, LeafCost) ==
  Let([Ns EXCEPT ![CurNode] = update(Ns[CurNode], LeafCost)], LAMBDA Ns1 :
    backpropagatePath(Ns1, Path, Len(Path), LeafCost))

\* the variant of the number of iterations that always is the number asked
numItersAsAsked(Root, N) == N

\* the number of iterations run executes when called with N
effectiveNumIters(Root, N) ==
  IF expanded(Root) /\ Len(Root.Transitions) = 1 THEN 1 ELSE N

\* one iteration of run: selection, evaluation, expansion, backpropagation
iteration(Ns, Path, Evaluated, Threshold) ==
  Let(leafOf(Ns, 1, Path), LAMBDA CurNode :
    Let(IF isTerminal(Ns[CurNode]) THEN 0 ELSE Evaluated, LAMBDA LeafCost :
      Let(IF ~isTerminal(Ns[CurNode]) /\ visitCount(Ns[CurNode]) >= Threshold
            THEN expand(Ns, CurNode, MaxNumLanes) ELSE Ns, LAMBDA Ns1 :
        backpropagate(Ns1, CurNode, Path, LeafCost))))

SearchStart(b) ==
  /\ BB = b
  /\ Frt = FrontierInit
  /\ Src = FrontierInit
  /\ PP = NoPP
  /\ last = Transition("none", 0, NoPack, NoShuffle, 0)
  /\ shuffles = 0
  /\ assertFailed = FALSE
  /\ Nodes = getNode(<<>>, FrontierInit).Nodes
  /\ pc = "idle"
  /\ Iter = 0
  /\ NumIters = 0
  /\ asked = 0
  /\ runs = 0
  /\ ExpandThreshold \in ExpandThresholds
  /\ rootAtCall = [Count |-> 0, Single |-> FALSE]

\* UCTSearch::run is called on the root
runCall ==
  /\ pc = "idle"
  /\ runs < MaxRuns
  /\ \E N \in 1..(MaxNumSimulations - visitCount(Nodes[1])) :
       /\ asked' = N
       /\ NumIters' = effectiveNumIters(Nodes[1], N)
  /\ rootAtCall' = [Count |-> visitCount(Nodes[1]),
                    Single |-> expanded(Nodes[1]) /\ Len(Nodes[1].Transitions) = 1]
  /\ Iter' = 0
  /\ runs' = runs + 1
  /\ pc' = "running"
  /\ UNCHANGED <<Nodes, ExpandThreshold, frontierVars, planVars, otherVars>>

\* one iteration of the loop of run
runIteration ==
  /\ pc = "running"
  /\ Iter < NumIters
  /\ \E Path \in selectPaths(Nodes, 1), Evaluated \in LeafCosts :
       \E Ns \in {iteration(Nodes, Path, Evaluated, ExpandThreshold)} :
         Nodes' = Ns
  /\ Iter' = Iter + 1
  /\ UNCHANGED <<pc, NumIters, asked, runs, ExpandThreshold, rootAtCall,
                 frontierVars, planVars, otherVars>>

\* run returns
runReturn ==
  /\ pc = "running"
  /\ Iter >= NumIters
  /\ pc' = "idle"
  /\ UNCHANGED <<Nodes, Iter, NumIters, asked, runs, ExpandThreshold, rootAtCall,
                 frontierVars, planVars, otherVars>>

InitUCT == (\E b \in SearchBlocks : SearchStart(b)) /\ NoPlan /\ NoOther

NextUCT ==
  \/ runCall
  \/ runIteration
  \/ runReturn

SpecUCT == InitUCT /\ [][NextUCT]_vars

(***************************************************************************)
(* Properties of the tree search.                                          *)
(***************************************************************************)
\* the visits of all the transitions of the tree that lead to node m
visitsInto(m) ==
  SumSeq([n \in 1..Len(Nodes) |->
            SumSeq([t \in 1..Len(Nodes[n].Transitions) |->
                      IF Nodes[n].Transitions[t].Next = m
                        THEN visitCount(Nodes[n].Transitions[t]) ELSE 0])])

transitionsInto(m) ==
  {<<n, t>> \in (1..Len(Nodes)) \X (1..8) :
     t <= Len(Nodes[n].Transitions) /\ Nodes[n].Transitions[t].Next = m}

firstRunReturned == pc = "idle" /\ runs = 1

\* C7 as stated: after run on a fresh root the root's visit count is the
\* number of simulations, and the visit count of every transition is the
\* visit count of the node it leads to, also when several transitions lead
\* to one node.
TransitionVisitsEqualNodeVisits ==
  firstRunReturned =>
    /\ visitCount(Nodes[1]) = asked
    /\ \A n \in 1..Len(Nodes) : \A t \in 1..Len(Nodes[n].Transitions) :
         visitCount(Nodes[n].Transitions[t])
           = visitCount(Nodes[Nodes[n].Transitions[t].Next])

\* C7 as amended: after run on a fresh root the root's visit count is the
\* number of simulations, and the visit count of every other node is the
\* sum of the visit counts of all the transitions that lead to it (one
\* transition's count only when no other transition leads to the node).
NodeVisitsSumTransitionVisits ==
  /\ firstRunReturned => visitCount(Nodes[1]) = asked
  /\ \A m \in 2..Len(Nodes) : visitCount(Nodes[m]) = visitsInto(m)

\* a run has gone through both of two transitions that lead to one node
SharedNodeVisitedBothWays ==
  /\ firstRunReturned
  /\ \E m \in 2..Len(Nodes) :
       /\ Cardinality(transitionsInto(m)) = 2
       /\ \A e \in transitionsInto(m) : visited(Nodes[e[1]].Transitions[e[2]])

\* the iterations the last run has executed
iterationsOfRun == visitCount(Nodes[1]) - rootAtCall.Count

\* C8 as stated: when the expansion of the root yields exactly one child,
\* run executes exactly one iteration whatever number it is called with,
\* whether or not the root was expanded already when run was called.
SingleChildRootRunsOnce ==
  (pc = "idle" /\ runs >= 1 /\ Len(Nodes[1].Transitions) = 1)
    => iterationsOfRun = 1

\* C8 as amended: run executes exactly one iteration, whatever number it
\* is called with, when the root is already expanded into exactly one child
\* at the call; otherwise, and so for a root whose expansion during the run
\* yields exactly one child, it executes the number it is called with.
ExpandedSingleChildRootRunsOnce ==
  (pc = "idle" /\ runs >= 1)
    => iterationsOfRun = IF rootAtCall.Single THEN 1 ELSE asked

\* run was called for several iterations on a root already expanded into
\* one child and has returned after one
ForcedMoveCutShort ==
  /\ pc = "idle"
  /\ runs = 2
  /\ rootAtCall.Single
  /\ asked >= 2
  /\ iterationsOfRun = 1

(***************************************************************************)
(* The Plan: the packs committed for a block, the producer of each value,  *)
(* the operand packs in use and the cached cost.                           *)
(***************************************************************************)
\* the blocks planned
PlanBlocks == {1, 2}

RECURSIVE Dedup(_)
Dedup(s) ==
  IF s = <<>> THEN <<>>
  ELSE Let(Dedup(SubSeq(s, 1, Len(s) - 1)), LAMBDA Front :
         IF s[Len(s)] \in Range(Front) THEN Front ELSE Append(Front, s[Len(s)]))

\* enumerate: the seed packs of every load and store for the lane counts
enumerate ==
  FlattenSeq([k \in 1..2 |->
    FlattenSeq([I \in 1..NumInsts |->
      IF isLoad(I) THEN getSeedMemPacks(FALSE, I, VL[k])
      ELSE IF isStore(I) THEN getSeedMemPacks(TRUE, I, VL[k])
      ELSE <<>>])])

\* the packs of the catalog's instructions over two independent values
generalPacks ==
  FlattenSeq([a \in 1..NumInsts |->
    FlattenSeq([b \in 1..NumInsts |->
      IF a # b /\ a \notin getDepended(b) /\ b \notin getDepended(a)
        THEN matchingPacks(<<a, b>>, {a, b}, getDepended(a) \cup getDepended(b))
        ELSE <<>>])])

\* CandidatePackSet::Packs
CandidatePacks == Dedup(enumerate \o generalPacks)

EmptyPlan ==
  [producers |-> [I \in Insts |-> NoPack], unresolved |-> <<>>, cost |-> 0]

\* Plan::getProducer
getProducer(P, I) == IF inBlock(I) THEN P.producers[I] ELSE NoPack

\* the packs of the plan, in the order of their first elements
planPacks(P) ==
  Let(SetToSeq({I \in Insts : P.producers[I] # NoPack
                               /\ \A J \in 1..(I - 1) : P.producers[J] # P.producers[I]}),
      LAMBDA Firsts : [k \in 1..Len(Firsts) |-> P.producers[Firsts[k]]])

\* the instructions some pack of the plan replaces
planReplaced(P) ==
  UNION {getReplacedInsts(P.producers[I]) : I \in {J \in Insts : P.producers[J] # NoPack}}

\* a produced value that a scalar still uses has to be extracted
needsExtract(P, V) ==
  /\ getProducer(P, V) # NoPack
  /\ \/ V \in ExternalUsers(BB)
     \/ \E U \in users(V) : U \notin planReplaced(P)

extractCost(P, VP) ==
  Let(getOrderedValues(VP), LAMBDA Vals :
    SumSeq([l \in 1..Len(Vals) |->
              IF Vals[l] # 0 /\ needsExtract(P, Vals[l])
                THEN getVectorInstrCost("ExtractElement", l) ELSE 0]))

\* the cost of building an operand pack: a gather from each pack that
\* produces some of its lanes and an insert for each lane left scalar
operandCost(P, OP) ==
  IF isConstantPack(OP) THEN 0
  ELSE Let(SelectSeq(planPacks(P), LAMBDA VP : resolveOperandPack(VP, OP)),
           LAMBDA From :
         SumSeq([k \in 1..Len(From) |-> getGatherCost(From[k], OP)])
         + SumSeq([l \in 1..Len(OP) |->
                     IF OP[l] # 0 /\ ~isConstant(OP[l]) /\ getProducer(P, OP[l]) = NoPack
                       THEN getVectorInstrCost("InsertElement", l) ELSE 0]))

\* the cost of a set of producers computed from scratch
scratchCost(P) ==
  Let(planPacks(P), LAMBDA Packs :
    Let(Dedup(FlattenSeq([k \in 1..Len(Packs) |-> getOperandPacks(Packs[k])])),
        LAMBDA OPs :
      SumSeq([k \in 1..Len(Packs) |-> computeCost(Packs[k]) + extractCost(P, Packs[k])])
      + SumSeq([i \in 1..Len(OPs) |-> operandCost(P, OPs[i])])))

\* Plan::verifyCost
verifyCost(P) == P.cost = scratchCost(P)

useCount(U, OP) == IF OP \in DOMAIN U THEN U[OP] ELSE 0

RECURSIVE incUses(_, _, _)
incUses(U, OPs, k) ==
  IF k > Len(OPs) THEN U
  ELSE incUses([OP \in DOMAIN U \cup {OPs[k]} |-> useCount(U, OP) + IF OP = OPs[k] THEN 1 ELSE 0],
               OPs, k + 1)

RECURSIVE decUses(_, _, _)
decUses(U, OPs, k) ==
  IF k > Len(OPs) THEN U
  ELSE decUses([OP \in {X \in DOMAIN U : X # OPs[k] \/ U[X] > 1} |->
                  U[OP] - IF OP = OPs[k] THEN 1 ELSE 0], OPs, k + 1)

\* the producers and the uses of operand packs once VP is added
withPack(P, VP) ==
  [P EXCEPT !.producers = [I \in Insts |-> IF I \in VP.Elements THEN VP ELSE @[I]],
            !.unresolved = incUses(@, getOperandPacks(VP), 1)]

\* the producers and the uses of operand packs once VP is removed
withoutPack(P, VP) ==
  [P EXCEPT !.producers = [I \in Insts |-> IF @[I] = VP THEN NoPack ELSE @[I]],
            !.unresolved = decUses(@, getOperandPacks(VP), 1)]

\* what the presence of VP adds to the cost; Without and With are the plan
\* without the pack and with it
costOfPack(Without, With, VP) ==
  Let(planPacks(Without), LAMBDA Others :
    Let(<<Dedup(getOperandPacks(VP)),
          SelectSeq(Dedup(FlattenSeq([k \in 1..Len(Others) |-> getOperandPacks(Others[k])])),
                    LAMBDA OP : resolveOperandPack(VP, OP))>>, LAMBDA X :
      computeCost(VP)
      + extractCost(With, VP)
      \* the values of other packs whose scalar users the pack replaces
      + SumSeq([k \in 1..Len(Others) |->
                  extractCost(With, Others[k]) - extractCost(Without, Others[k])])
      \* the operand packs only this pack uses
      + SumSeq([i \in 1..Len(X[1]) |->
                  IF useCount(Without.unresolved, X[1][i]) = 0
                    THEN operandCost(With, X[1][i]) ELSE 0])
      \* the operand packs in use that the pack produces lanes of
      + SumSeq([i \in 1..Len(X[2]) |->
                  operandCost(With, X[2][i]) - operandCost(Without, X[2][i])])))

\* the variant of add that does not look for producers
addPackOverProducers(P, VP) ==
  Let(withPack(P, VP), LAMBDA With :
    [Ok |-> TRUE, Plan |-> [With EXCEPT !.cost = P.cost + costOfPack(P, With, VP)]])

\* Plan::add: fails when an element of the pack has a producer
addPack(P, VP) ==
  IF \E I \in VP.Elements : getProducer(P, I) # NoPack
    THEN [Ok |-> FALSE, Plan |-> P]
    ELSE Let(withPack(P, VP), LAMBDA With :
           [Ok |-> TRUE,
            Plan |-> [With EXCEPT !.cost = P.cost + costOfPack(P, With, VP)]])

\* the variant of remove that gives back the producing cost only
removePackProducingCostOnly(P, VP) ==
  [withoutPack(P, VP) EXCEPT !.cost = P.cost - computeCost(VP)]

\* Plan::remove: reverts both indices and the cost
removePack(P, VP) ==
  Let(withoutPack(P, VP), LAMBDA Without :
    [Without EXCEPT !.cost = P.cost - costOfPack(Without, P, VP)])

ThePlan == [producers |-> producers, unresolved |-> unresolved, cost |-> cost]

PlanOp(Op, VP, CostBefore) == [op |-> Op, VP |-> VP, CostBefore |-> CostBefore]

PlanStart(b) ==
  /\ BB = b
  /\ Frt = FrontierInit
  /\ Src = FrontierInit
  /\ PP = NoPP
  /\ last = Transition("none", 0, NoPack, NoShuffle, 0)
  /\ shuffles = 0
  /\ assertFailed = FALSE
  /\ producers = EmptyPlan.producers
  /\ unresolved = EmptyPlan.unresolved
  /\ cost = EmptyPlan.cost
  /\ planLast = PlanOp("new", NoPack, 0)

\* a candidate pack is added to the plan
planAdd ==
  /\ planLast.op # "off"
  /\ \E Candidates \in {CandidatePacks} :
       \E k \in 1..Len(Candidates) :
         \E R \in {addPack(ThePlan, Candidates[k])} :
           /\ producers' = R.Plan.producers
           /\ unresolved' = R.Plan.unresolved
           /\ cost' = R.Plan.cost
           /\ planLast' = PlanOp(IF R.Ok THEN "add" ELSE "addFailed",
                                 Candidates[k], cost)
  /\ UNCHANGED <<frontierVars, searchVars, otherVars>>

\* a pack of the plan is removed
planRemove ==
  /\ planLast.op # "off"
  /\ \E VP \in Range(producers) \ {NoPack} :
       \E R \in {removePack(ThePlan, VP)} :
         /\ producers' = R.producers
         /\ unresolved' = R.unresolved
         /\ cost' = R.cost
         /\ planLast' = PlanOp("remove", VP, cost)
  /\ UNCHANGED <<frontierVars, searchVars, otherVars>>

InitPlan == (\E b \in PlanBlocks : PlanStart(b)) /\ NoSearch /\ NoOther

NextPlan ==
  \/ planAdd
  \/ planRemove

SpecPlan == InitPlan /\ [][NextPlan]_vars

(***************************************************************************)
(* Properties of the Plan.                                                 *)
(***************************************************************************)
\* C9: after any sequence of add and remove the cached cost of the plan is
\* the cost recomputed from scratch from its producers, and a remove right
\* after the add of the same pack gives back the cost before the add.
CachedCostIsScratchCost ==
  [][/\ verifyCost([producers |-> producers', unresolved |-> unresolved', cost |-> cost'])
     /\ (planLast.op = "add" /\ planLast'.op = "remove" /\ planLast'.VP = planLast.VP)
          => cost' = planLast.CostBefore]_vars

\* a pack has been removed from a plan that keeps another pack
PackRemovedFromPlan ==
  /\ planLast.op = "remove"
  /\ \E I \in Insts : producers[I] # NoPack
  /\ cost # planLast.CostBefore

\* C10: add fails when an element of the pack has a producer, so the packs
\* of a plan are pairwise disjoint and each is the producer of all its
\* elements.
PlanPacksDisjoint ==
  (planLast.op # "off") =>
     /\ \A I \in Insts, J \in Insts :
          (producers[I] # NoPack /\ producers[J] # NoPack /\ producers[I] # producers[J])
            => producers[I].Elements \cap producers[J].Elements = {}
     /\ \A I \in Insts :
          producers[I] # NoPack => \A J \in producers[I].Elements : producers[J] = producers[I]
     /\ planLast.op = "addFailed" =>
          /\ \E I \in planLast.VP.Elements : producers[I] # NoPack
          /\ cost = planLast.CostBefore

\* an add has failed on a plan of several packs
AddFailedOnOverlap ==
  /\ planLast.op = "addFailed"
  /\ Cardinality(Range(producers) \ {NoPack}) >= 2

(***************************************************************************)
(* DPSolver: the memoized solver over frontiers.                           *)
(***************************************************************************)
\* the number of calls of solve by the caller of the solver
MaxSolves == 2

\* the blocks solved
DPBlocks == {1, 2, 3}

\* estimateAllScalarCost: the lanes of the unresolved packs that are free
\* instructions of the block are inserted; a splat is broadcast
estimateAllScalarCost(F) ==
  LET charged(OP, l) == OP[l] # 0 /\ inBlock(OP[l]) /\ isFree(F, OP[l])
      packCost(OP) ==
        IF charged(OP, 1) /\ is_splat(OP) THEN getShuffleCost("Broadcast")
        ELSE SumSeq([l \in 1..Len(OP) |->
               IF charged(OP, l) THEN 2 * getVectorInstrCost("InsertElement", l) ELSE 0])
  IN  SumSeq([k \in 1..Len(F.UnresolvedPacks) |-> packCost(F.UnresolvedPacks[k])])

Solution(Cost, VP) == [Cost |-> Cost, VP |-> VP]

\* the variant of the comparison that takes every extension
takeSolutionAlways(Sol, TotalCost, ExtVP) == Solution(TotalCost, ExtVP)

\* if (Sol.Cost > TotalCost) { Sol.Cost = TotalCost; Sol.VP = ExtVP; }
takeSolution(Sol, TotalCost, ExtVP) ==
  IF Sol.Cost > TotalCost THEN Solution(TotalCost, ExtVP) ELSE Sol

RECURSIVE solve(_, _)
RECURSIVE solveExtensions(_, _, _, _, _)
\* the loop of solveImpl over the extensions from the k-th on; Sols is the
\* map of memoized solutions as the calls of solve leave it
solveExtensions(F, Extensions, k, Sol, Sols) ==
  IF k > Len(Extensions) THEN [Sol |-> Sol, Solutions |-> Sols]
  ELSE Let(advancePack(F, Extensions[k]), LAMBDA A :
         Let(solve(A.Next, Sols), LAMBDA R :
           Let(takeSolution(Sol, R.Sol.Cost + A.Cost, Extensions[k]), LAMBDA Sol2 :
             solveExtensions(F, Extensions, k + 1, Sol2, R.Solutions))))

solveImpl(F, Sols) ==
  Let(findExtensionPacks2(F), LAMBDA Extensions :
    solveExtensions(F, Extensions, 1, Solution(estimateAllScalarCost(F), NoPack), Sols))

\* DPSolver::solve: the memoized solution, or the one solveImpl computes,
\* which is memoized
solve(F, Sols) ==
  IF F \in DOMAIN Sols THEN [Sol |-> Sols[F], Solutions |-> Sols]
  ELSE Let(solveImpl(F, Sols), LAMBDA R :
         [Sol |-> R.Sol, Solutions |-> (F :> R.Sol) @@ R.Solutions])

\* optimizeBottomUp constructs the solver
DPStart(b) ==
  /\ FrontierStart(b)
  /\ Solutions = <<>>
  /\ dpLast = [op |-> "none", calls |-> 0]

\* Solver.solve(Frt) on the frontier the caller is at
solveCall ==
  /\ PP = NoPP
  /\ dpLast.calls < MaxSolves
  /\ \E R \in {solve(Frt, Solutions)} :
       /\ Solutions' = R.Solutions
       /\ dpLast' = [op |-> "solve", calls |-> dpLast.calls + 1, Frt |-> Frt,
                     Sol |-> R.Sol, Known |-> Frt \in DOMAIN Solutions]
  /\ UNCHANGED <<frontierVars, searchVars, planVars, heurVars, rollVars, policyVars, driverVars, callVars>>

InitDP ==
  (\E b \in DPBlocks : DPStart(b)) /\ NoSearch /\ NoPlan /\ NoHeuristic /\ NoRollout
  /\ NoPolicy /\ NoDriver /\ NoCall

NextDP ==
  \/ Scalarize
  \/ Seed
  \/ Extend2
  \/ solveCall

SpecDP == InitDP /\ [][NextDP]_vars

\* the cost of advancing F by each of its extensions and solving the
\* frontier reached, by the memoized solutions
extensionTotals(F) ==
  Let(findExtensionPacks2(F), LAMBDA Extensions :
    [k \in 1..Len(Extensions) |->
       Let(advancePack(F, Extensions[k]), LAMBDA A :
         [VP |-> Extensions[k], Solved |-> A.Next \in DOMAIN Solutions,
          Total |-> IF A.Next \in DOMAIN Solutions
                      THEN A.Cost + Solutions[A.Next].Cost ELSE 0])])

\* C11: the cost solve gives for a frontier is the least of the all-scalar
\* estimate and, over the extension packs of the frontier, the cost of
\* advancing by the pack plus the cost solve gives for the frontier reached;
\* the pack is null exactly when no extension is strictly cheaper than the
\* estimate, and otherwise an extension attaining the least cost.
SolveIsLeastOverExtensions ==
  \A F \in DOMAIN Solutions :
    \E Totals \in {extensionTotals(F)} :
      /\ \A k \in 1..Len(Totals) : Totals[k].Solved
      /\ Solutions[F].Cost =
           Min({estimateAllScalarCost(F)} \cup {Totals[k].Total : k \in 1..Len(Totals)})
      /\ (Solutions[F].VP = NoPack) <=>
           (\A k \in 1..Len(Totals) : Totals[k].Total >= estimateAllScalarCost(F))
      /\ Solutions[F].VP # NoPack =>
           \E k \in 1..Len(Totals) :
             Totals[k].VP = Solutions[F].VP /\ Totals[k].Total = Solutions[F].Cost

\* solve has chosen an extension among several, one of them not cheaper
\* than the estimate, and has met a frontier it had solved before
SolveChoseAmongExtensions ==
  /\ dpLast.op = "solve"
  /\ dpLast.Sol.VP # NoPack
  /\ \E Totals \in {extensionTotals(dpLast.Frt)} :
       /\ Len(Totals) >= 2
       /\ \E k \in 1..Len(Totals) : Totals[k].Total > dpLast.Sol.Cost
  /\ \E F \in DOMAIN Solutions : Solutions[F].VP = NoPack /\ findExtensionPacks2(F) # <<>>

(***************************************************************************)
(* Heuristic: the cost of producing an operand pack.  Costs are in units   *)
(* of 1/CostUnit, so that the halves and the pro-rated costs are integers. *)
(***************************************************************************)
CostUnit == 24

C_Splat == CostUnit

C_Insert == 2 * CostUnit

C_Perm == CostUnit \div 2

C_Shuffle == CostUnit \div 2

\* Packer::getScalarCost
getScalarCost(I) == CostUnit

\* VectorPack::getProducingCost
getProducingCost(VP) == CostUnit * computeCost(VP)

\* the blocks and operand packs solved
HeuristicBlocks == {1, 2, 3}

\* the values an operand pack may hold in a lane: an argument, or an
\* instruction that has a value
laneValues == {-1} \cup {I \in Insts : ~isStore(I)}

HeuristicOperandPacks ==
  {<<a, b>> : a \in laneValues, b \in laneValues}
  \cup {getOrderedValues(enumerate[k]) : k \in {j \in 1..Len(enumerate) : enumerate[j].Kind = "Load"}}
  \cup {Reverse(getOrderedValues(enumerate[k])) : k \in {j \in 1..Len(enumerate) : enumerate[j].Kind = "Load"}}
  \cup {getOrderedValues(enumerate[k]) \o getOrderedValues(enumerate[k]) :
          k \in {j \in 1..Len(enumerate) : enumerate[j].Kind = "Load" /\ Len(enumerate[j].Accesses) = 2}}

\* Heuristic::Solution
HSolution(Cost, Packs) == [Cost |-> Cost, Packs |-> Packs]

\* Solution::update: the cheaper of the two
updateSolution(Sol, Other) == IF Other.Cost < Sol.Cost THEN Other ELSE Sol

\* Packer::getProducerInfo: the elements of OP and the packs producing
\* OP lane by lane
getProducerInfo(OP) ==
  LET Elements == {OP[i] : i \in {j \in 1..Len(OP) : inBlock(OP[j])}}
      Depended == UNION {getDepended(I) : I \in Elements}
      Feasible == /\ \A i \in 1..Len(OP) : inBlock(OP[i])
                  /\ Cardinality(Elements) = Len(OP)
                  /\ Elements \cap Depended = {}
  IN  [Elements |-> Elements,
       Feasible |-> Feasible,
       Producers |->
         IF ~Feasible THEN <<>>
         ELSE IF \A I \in Elements : isLoad(I)
           THEN Let(findExtendingLoadPack(OP), LAMBDA LoadVP :
                  IF LoadVP = NoPack \/ getOrderedValues(LoadVP) # OP THEN <<>> ELSE <<LoadVP>>)
         ELSE matchingPacks(OP, Elements, Depended)]

RECURSIVE getValueCost(_)
\* Heuristic::getCost(Value *): the scalar cost of an instruction of the
\* block and of what it is computed from
getValueCost(V) ==
  IF V = 0 \/ ~inBlock(V) THEN 0
  ELSE getScalarCost(V) + SumSeq([k \in 1..Len(operands(V)) |-> getValueCost(operands(V)[k])])

\* CandidatePackSet::Inst2Packs[InstId]
Inst2Packs(Candidates, InstId) ==
  SelectSeq(Candidates.Packs, LAMBDA VP : InstId \in VP.Elements)

RECURSIVE heuristicSolve(_, _)
\* Heuristic::getCost(const VectorPack *)
getPackCost(VP, Candidates) ==
  getProducingCost(VP)
  + SumSeq([k \in 1..Len(getOperandPacks(VP)) |->
              heuristicSolve(getOperandPacks(VP)[k], Candidates).Cost])

RECURSIVE solveProducers(_, _, _, _)
\* the loop of solve over the producers of the deduplicated operand pack
solveProducers(Sol, Producers, ExtraCost, Candidates) ==
  IF Producers = <<>> THEN Sol
  ELSE Let(HSolution(getPackCost(Head(Producers), Candidates) + ExtraCost,
                     <<Head(Producers)>>), LAMBDA Other :
         solveProducers(updateSolution(Sol, Other), Tail(Producers), ExtraCost, Candidates))

\* the candidate packs solve visits: the load packs holding an element of
\* OP, each once, in the order of the elements
visitedCandidates(Elements, Candidates) ==
  SelectSeq(Dedup(FlattenSeq([k \in 1..Len(SetToSeq(Elements)) |->
                                Inst2Packs(Candidates, SetToSeq(Elements)[k])])),
            LAMBDA VP : VP.Kind = "Load")

\* what solve offers for a candidate load pack: its cost and a permutation
\* when its values are a permutation of OP, else its cost pro rata of the
\* elements it shares with OP and a shuffle
candidateSolution(VP, OP, Elements, ExtraCost, Candidates) ==
  Let(getOrderedValues(VP), LAMBDA Vals :
    IF Len(Vals) = Cardinality(Elements) /\ is_permutation(Vals, SubSeq(OP, 1, Len(Vals)))
      THEN HSolution(getPackCost(VP, Candidates) + C_Perm + ExtraCost, <<VP>>)
      ELSE HSolution((getPackCost(VP, Candidates) * Cardinality(Elements))
                       \div Cardinality(Elements \cap VP.Elements)
                     + C_Shuffle + ExtraCost, <<VP>>))

\* the variant of the loop over the candidates in which the last
\* candidate replaces the solution
solveCandidatesLastWins(Sol, OP, Elements, Packs, ExtraCost, Candidates) ==
  IF Packs = <<>> THEN Sol
  ELSE candidateSolution(Packs[Len(Packs)], OP, Elements, ExtraCost, Candidates)

RECURSIVE solveCandidates(_, _, _, _, _, _)
\* the loop of solve over the candidate packs
solveCandidates(Sol, OP, Elements, Packs, ExtraCost, Candidates) ==
  IF Packs = <<>> THEN Sol
  ELSE Let(candidateSolution(Head(Packs), OP, Elements, ExtraCost, Candidates),
           LAMBDA Other :
         solveCandidates(updateSolution(Sol, Other), OP, Elements, Tail(Packs), ExtraCost,
                         Candidates))

\* a Heuristic constructed with a null candidate set
NoCandidates == [Null |-> TRUE, Packs |-> <<>>]

\* the CandidatePackSet of the packs
CandidatePackSet(Packs) == [Null |-> FALSE, Packs |-> Packs]

\* the cost of building OP by explicit insertion
insertionCost(OP) ==
  Let(Dedup(OP), LAMBDA Inserted :
    SumSeq([k \in 1..Len(Inserted) |->
              IF Inserted[k] # 0 /\ ~isConstant(Inserted[k])
                THEN getValueCost(Inserted[k]) + C_Insert ELSE 0]))

\* Heuristic::solve on a Heuristic constructed over Candidates; the
\* solution the Solutions map memoizes for OP is the one computed here
heuristicSolve(OP, Candidates) ==
  Let(insertionCost(OP), LAMBDA Cost :
    IF Cost = 0 THEN HSolution(Cost, <<>>)
    ELSE
      Let(IF is_splat(OP) /\ Cost > getValueCost(OP[1]) + C_Splat
            THEN HSolution(getValueCost(OP[1]) + C_Splat, <<>>)
            ELSE HSolution(Cost, <<>>), LAMBDA Sol0 :
        Let(IF Dedup(OP) # OP THEN C_Shuffle ELSE 0, LAMBDA ExtraCost :
          Let(getProducerInfo(Dedup(OP)), LAMBDA OPI :
            Let(solveProducers(Sol0, OPI.Producers, ExtraCost, Candidates), LAMBDA Sol1 :
              IF Candidates.Null THEN Sol1
              ELSE solveCandidates(Sol1, OP, OPI.Elements,
                                   visitedCandidates(OPI.Elements, Candidates),
                                   ExtraCost, Candidates))))))

\* optimizeBottomUp enumerates the candidate packs of the block
HeuristicStart(b) ==
  /\ FrontierStart(b)
  /\ heurLast = [op |-> "none"]

\* the subsequence of the enumerated packs Packs at the positions of S
candidatesAt(Packs, S) ==
  Let(SelectSeq([k \in 1..Len(Packs) |-> k], LAMBDA k : k \in S), LAMBDA Ks :
    [j \in 1..Len(Ks) |-> Packs[Ks[j]]])

\* solve(OP) on a fresh Heuristic over the candidates C1 (or over none)
\* and on a fresh Heuristic over the candidates C2, C1 being among C2
solveBoth ==
  /\ heurLast.op = "none"
  /\ \E Packs \in {Dedup(enumerate)} :
       \E OP \in HeuristicOperandPacks :
         \E Sols \in {Tabulate([S \in SUBSET (1..Len(Packs)) |->
                         heuristicSolve(OP, CandidatePackSet(candidatesAt(Packs, S)))])} :
           \E SolNull \in {heuristicSolve(OP, NoCandidates)} :
             \E S2 \in SUBSET (1..Len(Packs)) :
               \E S1 \in SUBSET S2 :
                 \E Null1 \in {FALSE} \cup {S1 = {}} :
                   heurLast' =
                     [op |-> "solve", OP |-> OP,
                      C1 |-> IF Null1 THEN NoCandidates
                             ELSE CandidatePackSet(candidatesAt(Packs, S1)),
                      C2 |-> CandidatePackSet(candidatesAt(Packs, S2)),
                      Sol1 |-> IF Null1 THEN SolNull ELSE Sols[S1],
                      Sol2 |-> Sols[S2],
                      Baseline |-> insertionCost(OP)]
  /\ UNCHANGED <<frontierVars, searchVars, planVars, dpVars, rollVars, policyVars, driverVars, callVars>>

InitHeuristic ==
  (\E b \in HeuristicBlocks : HeuristicStart(b)) /\ NoSearch /\ NoPlan /\ NoDP /\ NoRollout
  /\ NoPolicy /\ NoDriver /\ NoCall

NextHeuristic == solveBoth

SpecHeuristic == InitHeuristic /\ [][NextHeuristic]_vars

\* C12: for a block and an operand pack, the cost solve returns on a fresh
\* Heuristic over a candidate set is at most the cost it returns on a fresh
\* Heuristic over a subset of the candidates, and both are at most the
\* cost of building the operand pack by explicit insertion.
SolveMonotoneInCandidates ==
  heurLast.op = "solve" =>
    /\ heurLast.Sol2.Cost <= heurLast.Sol1.Cost
    /\ heurLast.Sol1.Cost <= heurLast.Baseline
    /\ heurLast.Sol2.Cost <= heurLast.Baseline

\* a candidate of the larger set only has lowered the cost below the one
\* over the smaller set, itself below the cost of insertion
LargerCandidateSetCheaper ==
  /\ heurLast.op = "solve"
  /\ heurLast.C1 # NoCandidates
  /\ heurLast.Sol2.Cost < heurLast.Sol1.Cost
  /\ heurLast.Sol1.Cost < heurLast.Baseline
  /\ heurLast.Sol1.Packs # <<>>

(***************************************************************************)
(* RolloutEvaluator::evaluate: the random rollout from a leaf of the tree. *)
(***************************************************************************)
\* the blocks rolled out
RolloutBlocks == {1, 2, 4, 6}

\* findCompatibleExtensions: the extensions with the lanes of the partial
\* pack whose first lanes are its filled lanes
findCompatibleExtensions(P, Extensions) ==
  SelectSeq(Extensions, LAMBDA VP :
    Let(getOrderedValues(VP), LAMBDA OutputLanes :
      /\ Len(OutputLanes) = P.NumLanes
      /\ \A i \in 1..Len(P.FilledLanes) : P.FilledLanes[i] = OutputLanes[i]))

\* the partial packs the rollout chooses the next one from: the feasible
\* fills by an instruction some compatible extension has in the lane, or,
\* when there is none, all the feasible fills
nextPartialPacks(P, F, Compatible) ==
  Let(getUsableInsts(P, F), LAMBDA UsableInsts :
    Let({getOrderedValues(Compatible[k])[P.LaneId + 1] : k \in 1..Len(Compatible)},
        LAMBDA ExtendingInsts :
      Let(SelectSeq(UsableInsts, LAMBDA I : isPartialPackFeasible(fillOneLane(P, I), F)),
          LAMBDA Feasible :
        Let(SelectSeq(Feasible, LAMBDA I : I \in ExtendingInsts), LAMBDA Extending :
          IF Extending # <<>> THEN [k \in 1..Len(Extending) |-> fillOneLane(P, Extending[k])]
          ELSE [k \in 1..Len(Feasible) |-> fillOneLane(P, Feasible[k])]))))

\* the tree search is at a leaf: the frontier and the partial pack of a node
RolloutStart(b) ==
  /\ FrontierStart(b)
  /\ roll = [pc |-> "idle"]

\* the transitions of the tree from the root to the leaf
descend ==
  /\ roll.pc = "idle"
  /\ \/ Scalarize
     \/ StartPP
     \/ FillLane
     \/ FillLaneCommit

\* evaluate is called on the leaf: FrtScratch = *Frt, Cost = 0
evaluateCall ==
  /\ roll.pc = "idle"
  /\ ~isTerminalFrt(Frt)
  /\ PP = NoPP \/ ~isFilled(PP)
  /\ roll' = [pc |-> IF PP # NoPP THEN "fill" ELSE "loop",
              FrtScratch |-> Frt,
              PP |-> PP,
              CompatibleExtensions |-> IF PP # NoPP THEN findExtensionPacks(Frt) ELSE <<>>,
              Cost |-> 0,
              Applied |-> <<>>]
  /\ UNCHANGED <<frontierVars, searchVars, planVars, dpVars, heurVars, policyVars, driverVars, callVars>>

\* one iteration of the loop that fills the partial pack: a random feasible
\* fill; the pack is committed once getPack gives it.  A filled partial
\* pack without a pack fails the assertion of getUsableInsts.
fillPartialPack ==
  /\ roll.pc = "fill"
  /\ IF isFilled(roll.PP) THEN roll' = [roll EXCEPT !.pc = "failed"]
     ELSE \E Compatible \in {findCompatibleExtensions(roll.PP, roll.CompatibleExtensions)} :
            \E NextPPs \in {nextPartialPacks(roll.PP, Frt, Compatible)} :
              IF NextPPs = <<>> THEN roll' = [roll EXCEPT !.pc = "failed"]
              ELSE \E k \in 1..Len(NextPPs) :
                     \E VP \in {getPack(NextPPs[k])} :
                       IF VP # NoPack
                         THEN \E R \in {advanceInplacePack(roll.FrtScratch, VP)} :
                                roll' = [roll EXCEPT !.pc = "loop",
                                                     !.FrtScratch = R.Frt,
                                                     !.Cost = @ + R.Cost,
                                                     !.Applied = Append(@, R.Cost)]
                         ELSE roll' = [roll EXCEPT !.PP = NextPPs[k],
                                                   !.CompatibleExtensions = Compatible]
  /\ UNCHANGED <<frontierVars, searchVars, planVars, dpVars, heurVars, policyVars, driverVars, callVars>>

\* what one iteration of the main loop applies to the scratch frontier: a
\* random extension pack, or else the first usable instruction, or nothing
rolloutMoves(F) ==
  Let(findExtensionPacks(F), LAMBDA Extensions :
    IF Extensions # <<>>
      THEN {advanceInplacePack(F, Extensions[k]) : k \in 1..Len(Extensions)}
    ELSE IF usableInsts(F) # <<>> THEN {advanceInplaceInst(F, usableInsts(F)[1])}
    ELSE {})

\* one iteration of the main loop; evaluate returns Cost when the scratch
\* frontier has no unresolved pack and no unresolved scalar left
rolloutStep ==
  /\ roll.pc = "loop"
  /\ \E Moves \in {rolloutMoves(roll.FrtScratch)} :
       IF Moves = {}
         THEN roll' = [roll EXCEPT !.pc = IF isTerminalFrt(roll.FrtScratch)
                                            THEN "done" ELSE "loop"]
         ELSE \E R \in Moves :
                roll' = [roll EXCEPT !.pc = IF isTerminalFrt(R.Frt) THEN "done" ELSE "loop",
                                     !.FrtScratch = R.Frt,
                                     !.Cost = @ + R.Cost,
                                     !.Applied = Append(@, R.Cost)]
  /\ UNCHANGED <<frontierVars, searchVars, planVars, dpVars, heurVars, policyVars, driverVars, callVars>>

InitRollout ==
  (\E b \in RolloutBlocks : RolloutStart(b)) /\ NoSearch /\ NoPlan /\ NoDP /\ NoHeuristic
  /\ NoPolicy /\ NoDriver /\ NoCall

NextRollout ==
  \/ descend
  \/ evaluateCall
  \/ fillPartialPack
  \/ rolloutStep

\* the thread that called evaluate keeps executing it
SpecRollout ==
  /\ InitRollout
  /\ [][NextRollout]_vars
  /\ WF_vars(fillPartialPack)
  /\ WF_vars(rolloutStep)

\* C14: evaluate, called on a non-terminal frontier reached by scalarizing
\* and committing packs, with or without a feasible partial pack, comes to
\* a scratch frontier without unresolved scalars and packs and returns;
\* what it returns is the sum of the costs of the transitions it applied.
RolloutTerminates ==
  /\ (roll.pc \in {"fill", "loop"}) ~> (roll.pc = "done")
  /\ [](roll.pc = "done" =>
          isTerminalFrt(roll.FrtScratch) /\ roll.Cost = SumSeq(roll.Applied))

\* ---------------------------------------------------------------------------
\* NeuralPackingPolicy and the search thread that uses it
\* ---------------------------------------------------------------------------

\* the nodes the search expands while the policy is alive
NumPolicyNodes == 3

PolicyNodes == 1..NumPolicyNodes

\* the number of requests handed to a worker at once
BatchSize == 2

\* the cap on the requests in flight
MaxNumInflights == 2

\* the threads: the search thread, one evaluation thread, one thread calling predict
PolicyThreads == {"main", "worker", "caller"}

\* the places where a thread is blocked on a condition variable:
\* InflightCond, IdlingCond, QueueCond, and the completion of a node
BlockedAt == {"waitInflight", "waitIdle", "waitQueue", "waitNode"}

\* the variant of cancel that signals only the queue's condition variable
cancelSignalsQueueOnly == {"waitQueue"}

\* cancel signals every condition variable
cancelSignals == BlockedAt

\* notify_all on the condition variables `Conds`: every thread blocked there is woken
notifyAll(Woken, Conds) == Woken \cup {t \in PolicyThreads : thr[t].pc \in Conds}

\* a request for the node is pending, queued, or being evaluated
inFlight(n) ==
  \/ n \in Range(pol.Nodes)
  \/ \E i \in 1..Len(pol.Queue) : n \in Range(pol.Queue[i])
  \/ thr["worker"].pc = "eval" /\ n \in Range(thr["worker"].batch)

\* the variant of the worker that publishes the weights when it takes the batch
weightsAtTakePublished(Weight, Batch) ==
  [n \in PolicyNodes |-> IF n \in Range(Batch) THEN "set" ELSE Weight[n]]

\* the weights a worker publishes when it takes a batch: none
weightsAtTake(Weight, Batch) == Weight

\* the weights after the worker evaluated the batch
weightsAtFinish(Weight, Batch) ==
  [n \in PolicyNodes |-> IF n \in Range(Batch) THEN "set" ELSE Weight[n]]

\* hand the pending nodes to the queue and signal QueueCond
flush(P) ==
  IF P.Nodes = <<>> THEN P
  ELSE [P EXCEPT !.Queue = Append(@, P.Nodes),
                 !.Nodes = <<>>,
                 !.Woken = notifyAll(@, {"waitQueue"})]

\* predictAsync past the cap: the node joins the pending list, a full list is queued
enqueue(P, n) ==
  Let([P EXCEPT !.Nodes = Append(@, n), !.NumInflights = @ + 1],
      LAMBDA Q : IF Len(Q.Nodes) = BatchSize THEN flush(Q) ELSE Q)

\* the policy after construction; the evaluation thread reads Shutdown before the
\* constructor assigns it, so it may already have left
PolicyStart ==
  /\ pol = [op |-> "on", Shutdown |-> FALSE, Queue |-> <<>>, Nodes |-> <<>>,
            NumInflights |-> 0, Weight |-> [n \in PolicyNodes |-> "none"],
            Woken |-> {}]
  /\ \E wpc \in {"idle", "exited"} :
       thr = [main |-> [pc |-> "run", node |-> 0, batch |-> <<>>],
              worker |-> [pc |-> wpc, node |-> 0, batch |-> <<>>],
              caller |-> [pc |-> "none", node |-> 0, batch |-> <<>>],
              Expanded |-> [pc |-> "set", node |-> 0, batch |-> <<>>]]
  /\ polLast = [op |-> "none", node |-> 0, HasPredictions |-> FALSE,
                InFlight |-> FALSE, After |-> FALSE]

\* the nodes the search has expanded
expandedNodes == Range(thr["Expanded"].batch)

\* UCTSearch::run, selection: the weights of an expanded node are read as they are
selectRead ==
  /\ thr["main"].pc = "run"
  /\ \E n \in expandedNodes :
       polLast' = [op |-> "read", node |-> n,
                   HasPredictions |-> pol.Weight[n] = "set",
                   InFlight |-> inFlight(n), After |-> FALSE]
  /\ UNCHANGED <<pol, thr>>
  /\ UNCHANGED <<frontierVars, searchVars, planVars, dpVars, heurVars, rollVars, driverVars, callVars>>

\* UCTSearch::run, expansion of a leaf followed by Policy->predictAsync(CurNode);
\* the leaves are numbered in the order of their expansion
predictAsyncCall ==
  /\ thr["main"].pc = "run"
  /\ \E n \in PolicyNodes \cap {Len(thr["Expanded"].batch) + 1} :
       IF pol.Shutdown
       THEN /\ thr' = [thr EXCEPT !["Expanded"].batch = Append(@, n)]
            /\ pol' = pol
       ELSE IF pol.NumInflights >= MaxNumInflights
       THEN /\ thr' = [thr EXCEPT !["Expanded"].batch = Append(@, n),
                                  !["main"] = [pc |-> "waitInflight", node |-> n,
                                               batch |-> <<>>]]
            /\ pol' = pol
       ELSE /\ thr' = [thr EXCEPT !["Expanded"].batch = Append(@, n)]
            /\ pol' = enqueue(pol, n)
  /\ UNCHANGED polLast
  /\ UNCHANGED <<frontierVars, searchVars, planVars, dpVars, heurVars, rollVars, driverVars, callVars>>

\* predictAsync, blocked on the cap and signalled: it looks at the cap again
predictAsyncWake ==
  /\ thr["main"].pc = "waitInflight"
  /\ "main" \in pol.Woken
  /\ IF pol.Shutdown
     THEN /\ thr' = [thr EXCEPT !["main"] = [pc |-> "run", node |-> 0, batch |-> <<>>]]
          /\ pol' = [pol EXCEPT !.Woken = @ \ {"main"}]
     ELSE IF pol.NumInflights >= MaxNumInflights
     THEN /\ thr' = thr
          /\ pol' = [pol EXCEPT !.Woken = @ \ {"main"}]
     ELSE /\ thr' = [thr EXCEPT !["main"] = [pc |-> "run", node |-> 0, batch |-> <<>>]]
          /\ pol' = enqueue([pol EXCEPT !.Woken = @ \ {"main"}], thr["main"].node)
  /\ UNCHANGED polLast
  /\ UNCHANGED <<frontierVars, searchVars, planVars, dpVars, heurVars, rollVars, driverVars, callVars>>

\* the driver after MCTS.run: Policy.waitForInflight()
waitForInflightCall ==
  /\ thr["main"].pc = "run"
  /\ expandedNodes # {}
  /\ \E Q \in {IF pol.Shutdown THEN pol ELSE flush(pol)} :
       /\ pol' = Q
       /\ thr' = [thr EXCEPT !["main"].pc =
                    IF Q.Shutdown \/ Q.NumInflights = 0 THEN "after" ELSE "waitIdle"]
  /\ UNCHANGED polLast
  /\ UNCHANGED <<frontierVars, searchVars, planVars, dpVars, heurVars, rollVars, driverVars, callVars>>

\* waitForInflight, blocked and signalled: it looks at the inflight count again
waitForInflightWake ==
  /\ thr["main"].pc = "waitIdle"
  /\ "main" \in pol.Woken
  /\ pol' = [pol EXCEPT !.Woken = @ \ {"main"}]
  /\ thr' = [thr EXCEPT !["main"].pc =
               IF pol.Shutdown \/ pol.NumInflights = 0 THEN "after" ELSE "waitIdle"]
  /\ UNCHANGED polLast
  /\ UNCHANGED <<frontierVars, searchVars, planVars, dpVars, heurVars, rollVars, driverVars, callVars>>

\* a read of a node's weights after waitForInflight returned
readAfterWait ==
  /\ thr["main"].pc = "after"
  /\ polLast.After = FALSE
  /\ \E n \in expandedNodes :
       polLast' = [op |-> "read", node |-> n,
                   HasPredictions |-> pol.Weight[n] = "set",
                   InFlight |-> inFlight(n), After |-> TRUE]
  /\ UNCHANGED <<pol, thr>>
  /\ UNCHANGED <<frontierVars, searchVars, planVars, dpVars, heurVars, rollVars, driverVars, callVars>>

\* evalNodes: leave on shutdown, take a batch, or block on the empty queue
workerTake ==
  /\ thr["worker"].pc = "idle"
  /\ IF pol.Shutdown
     THEN /\ thr' = [thr EXCEPT !["worker"].pc = "exited"]
          /\ pol' = pol
     ELSE IF pol.Queue = <<>>
     THEN /\ thr' = [thr EXCEPT !["worker"].pc = "waitQueue"]
          /\ pol' = pol
     ELSE /\ thr' = [thr EXCEPT !["worker"] = [pc |-> "eval", node |-> 0,
                                               batch |-> Head(pol.Queue)]]
          /\ pol' = [pol EXCEPT !.Queue = Tail(@),
                                !.Weight = weightsAtTake(@, Head(pol.Queue))]
  /\ UNCHANGED polLast
  /\ UNCHANGED <<frontierVars, searchVars, planVars, dpVars, heurVars, rollVars, driverVars, callVars>>

\* evalNodes, blocked on the empty queue and signalled
workerWake ==
  /\ thr["worker"].pc = "waitQueue"
  /\ "worker" \in pol.Woken
  /\ pol' = [pol EXCEPT !.Woken = @ \ {"worker"}]
  /\ thr' = [thr EXCEPT !["worker"].pc = "idle"]
  /\ UNCHANGED polLast
  /\ UNCHANGED <<frontierVars, searchVars, planVars, dpVars, heurVars, rollVars, driverVars, callVars>>

\* evalNodes: the batch is evaluated, the weights are stored, the waiters signalled
workerFinish ==
  /\ thr["worker"].pc = "eval"
  /\ pol' = [pol EXCEPT !.Weight = weightsAtFinish(@, thr["worker"].batch),
                        !.NumInflights = @ - Len(thr["worker"].batch),
                        !.Woken = notifyAll(@, {"waitInflight", "waitIdle", "waitNode"})]
  /\ thr' = [thr EXCEPT !["worker"] = [pc |-> "idle", node |-> 0, batch |-> <<>>]]
  /\ UNCHANGED polLast
  /\ UNCHANGED <<frontierVars, searchVars, planVars, dpVars, heurVars, rollVars, driverVars, callVars>>

\* predict(node): returns once the node has weights or the policy is shut down
predictCall ==
  /\ thr["caller"].pc = "none"
  /\ \E n \in expandedNodes :
       thr' = [thr EXCEPT !["caller"] =
                 [pc |-> IF pol.Shutdown \/ pol.Weight[n] = "set"
                         THEN "returned" ELSE "waitNode",
                  node |-> n, batch |-> <<>>]]
  /\ UNCHANGED <<pol, polLast>>
  /\ UNCHANGED <<frontierVars, searchVars, planVars, dpVars, heurVars, rollVars, driverVars, callVars>>

\* predict(node), blocked and signalled: it looks at the node again
predictWake ==
  /\ thr["caller"].pc = "waitNode"
  /\ "caller" \in pol.Woken
  /\ pol' = [pol EXCEPT !.Woken = @ \ {"caller"}]
  /\ thr' = [thr EXCEPT !["caller"].pc =
               IF pol.Shutdown \/ pol.Weight[thr["caller"].node] = "set"
               THEN "returned" ELSE "waitNode"]
  /\ UNCHANGED polLast
  /\ UNCHANGED <<frontierVars, searchVars, planVars, dpVars, heurVars, rollVars, driverVars, callVars>>

\* cancel(): the flag is set, the queue is drained, the condition variables signalled
cancel ==
  /\ pol.op = "on"
  /\ ~pol.Shutdown
  /\ pol' = [pol EXCEPT !.Shutdown = TRUE,
                        !.Queue = <<>>,
                        !.Nodes = <<>>,
                        !.Woken = notifyAll(@, cancelSignals)]
  /\ UNCHANGED <<thr, polLast>>
  /\ UNCHANGED <<frontierVars, searchVars, planVars, dpVars, heurVars, rollVars, driverVars, callVars>>

InitPolicy ==
  /\ FrontierStart(1)
  /\ NoSearch /\ NoPlan /\ NoDP /\ NoHeuristic /\ NoRollout /\ NoDriver /\ NoCall
  /\ PolicyStart

NextPolicy ==
  \/ selectRead
  \/ predictAsyncCall
  \/ predictAsyncWake
  \/ waitForInflightCall
  \/ waitForInflightWake
  \/ readAfterWait
  \/ workerTake
  \/ workerWake
  \/ workerFinish
  \/ predictCall
  \/ predictWake
  \/ cancel

\* every thread that can take a step is scheduled eventually
SpecPolicy ==
  /\ InitPolicy
  /\ [][NextPolicy]_vars
  /\ WF_vars(predictAsyncWake)
  /\ WF_vars(waitForInflightWake)
  /\ WF_vars(workerTake)
  /\ WF_vars(workerWake)
  /\ WF_vars(workerFinish)
  /\ WF_vars(predictWake)

blocked(t) == thr[t].pc \in BlockedAt

\* C16: once cancel() has run, every thread blocked in the policy (the producer on
\* the inflight cap, the worker on the empty queue, a caller of predict) is
\* eventually unblocked
CancelUnblocksEveryThread ==
  \A t \in PolicyThreads :
    (pol.Shutdown /\ blocked(t)) ~> ~blocked(t)

\* cancel has run while the producer, the worker or a caller of predict was blocked
CancelledWhileBlocked ==
  /\ pol.Shutdown
  /\ \E t \in PolicyThreads : blocked(t) /\ t \in pol.Woken

\* ---------------------------------------------------------------------------
\* generate-data: one task per function on a thread pool
\* ---------------------------------------------------------------------------

\* the modules main reads
NumModules == 2

\* the functions of a module
FuncsPerModule == 3

\* the basic blocks of a function
BlocksPerFunc == 2

\* the threads of the pool
PoolSize == 2

AllFuncs == 1..(NumModules * FuncsPerModule)

\* the f-th function of the m-th module
funcOf(m, f) == (m - 1) * FuncsPerModule + f

\* the variant of runOnFunction that hands every task the Packer of the first function
newPackerShared(F) == 1

\* runOnFunction: `new Packer(...)` for the function, a fresh object
newPacker(F) == F

\* the tasks the pool has not finished
unfinished == {t \in AllFuncs : tasks[t].pc \in {"queued", "running"}}

DriverStart ==
  /\ drv = [op |-> "on", pc |-> "passes", M |-> 1, nextF |-> 1]
  /\ tasks = [t \in AllFuncs |-> [pc |-> "none", Pkr |-> 0, blocksLeft |-> 0]]
  /\ heap = [op |-> "on",
             Packers |-> [P \in AllFuncs |->
                            [state |-> "none", deletes |-> 0, mutatedBy |-> {},
                             deletedBy |-> {}, usedAfterDelete |-> FALSE]],
             Archiver |-> [Samples |-> 0, mutatedBy |-> {}]]

\* GeneratorWrapper::runOnFunction: a Packer is made and the task is given to the pool
runOnFunction ==
  /\ drv.pc = "passes"
  /\ drv.nextF <= FuncsPerModule
  /\ \E F \in {funcOf(drv.M, drv.nextF)} :
       /\ tasks' = [tasks EXCEPT ![F] = [pc |-> "queued", Pkr |-> newPacker(F),
                                         blocksLeft |-> BlocksPerFunc]]
       /\ heap' = [heap EXCEPT !.Packers[newPacker(F)].state = "live"]
  /\ drv' = [drv EXCEPT !.nextF = @ + 1]
  /\ UNCHANGED <<frontierVars, searchVars, planVars, dpVars, heurVars, rollVars, policyVars, callVars>>

\* main: Passes.run(*M) has visited every function, Threads->wait() is called
passesRunReturn ==
  /\ drv.pc = "passes"
  /\ drv.nextF > FuncsPerModule
  /\ drv' = [drv EXCEPT !.pc = "wait"]
  /\ UNCHANGED <<tasks, heap>>
  /\ UNCHANGED <<frontierVars, searchVars, planVars, dpVars, heurVars, rollVars, policyVars, callVars>>

\* main: Threads->wait() returns when the pool is idle; the next module follows
threadsWait ==
  /\ drv.pc = "wait"
  /\ unfinished = {}
  /\ drv' = IF drv.M < NumModules
            THEN [drv EXCEPT !.pc = "passes", !.M = @ + 1, !.nextF = 1]
            ELSE [drv EXCEPT !.pc = "done"]
  /\ UNCHANGED <<tasks, heap>>
  /\ UNCHANGED <<frontierVars, searchVars, planVars, dpVars, heurVars, rollVars, policyVars, callVars>>

\* ThreadPool: a free thread takes a queued task
poolStart ==
  /\ drv.op = "on"
  /\ \E t \in AllFuncs :
       /\ tasks[t].pc = "queued"
       /\ Cardinality({u \in AllFuncs : tasks[u].pc = "running"}) < PoolSize
       /\ tasks' = [tasks EXCEPT ![t].pc = "running"]
  /\ UNCHANGED <<drv, heap>>
  /\ UNCHANGED <<frontierVars, searchVars, planVars, dpVars, heurVars, rollVars, policyVars, callVars>>

\* runGeneratorOnFunction, one turn of the loop: SG->run(nullptr, Pkr, &BB) works on
\* the task's Packer and records its samples with the generator's archiver
runGeneratorOnBlock ==
  /\ drv.op = "on"
  /\ \E t \in AllFuncs :
       /\ tasks[t].pc = "running"
       /\ tasks[t].blocksLeft > 0
       /\ tasks' = [tasks EXCEPT ![t].blocksLeft = @ - 1]
       /\ heap' = [heap EXCEPT
                     !.Packers[tasks[t].Pkr].mutatedBy = @ \cup {t},
                     !.Packers[tasks[t].Pkr].usedAfterDelete =
                        @ \/ heap.Packers[tasks[t].Pkr].state = "deleted",
                     !.Archiver.Samples = @ + 1,
                     !.Archiver.mutatedBy = @ \cup {t}]
  /\ UNCHANGED drv
  /\ UNCHANGED <<frontierVars, searchVars, planVars, dpVars, heurVars, rollVars, policyVars, callVars>>

\* runGeneratorOnFunction after the loop: delete Pkr
deletePacker ==
  /\ drv.op = "on"
  /\ \E t \in AllFuncs :
       /\ tasks[t].pc = "running"
       /\ tasks[t].blocksLeft = 0
       /\ tasks' = [tasks EXCEPT ![t].pc = "done"]
       /\ heap' = [heap EXCEPT
                     !.Packers[tasks[t].Pkr].state = "deleted",
                     !.Packers[tasks[t].Pkr].deletes = @ + 1,
                     !.Packers[tasks[t].Pkr].deletedBy = @ \cup {t}]
  /\ UNCHANGED drv
  /\ UNCHANGED <<frontierVars, searchVars, planVars, dpVars, heurVars, rollVars, policyVars, callVars>>

InitDriver ==
  /\ FrontierStart(1)
  /\ NoSearch /\ NoPlan /\ NoDP /\ NoHeuristic /\ NoRollout /\ NoPolicy /\ NoCall
  /\ DriverStart

NextDriver ==
  \/ runOnFunction
  \/ passesRunReturn
  \/ threadsWait
  \/ poolStart
  \/ runGeneratorOnBlock
  \/ deletePacker

SpecDriver == InitDriver /\ [][NextDriver]_vars

\* each Packer is deleted at most once, by the task that used it, after the task's
\* blocks, and never used afterwards; it is deleted once the pool has been waited for
packersDeletedOnce ==
  \A t \in AllFuncs :
    /\ heap.Packers[t].deletes <= 1
    /\ heap.Packers[t].deletedBy \subseteq heap.Packers[t].mutatedBy
    /\ ~heap.Packers[t].usedAfterDelete
    /\ heap.Packers[t].state = "deleted" =>
         \A u \in heap.Packers[t].mutatedBy : tasks[u].pc = "done"
    /\ tasks[t].pc = "done" => heap.Packers[tasks[t].Pkr].deletes = 1
    /\ (drv.pc = "done" \/ funcOf(drv.M, 1) > t) => tasks[t].pc = "done"

MaxTransitions == 3

\* the visits of a transition
MaxVisits == 2

\* the values of ScoreTransition: the score of the node plus the weighted prior
Scores == {-2, -1, 0, 1}

\* the transitions a node may have: visit count and score of each
selectInputs ==
  UNION {[1..n -> [Count : 0..MaxVisits, Score : Scores]] : n \in 1..MaxTransitions}

\* the variant of the comparison that lets an equal score take over
takesOverOnTie(UCTScore, MaxUCTScore) == UCTScore >= MaxUCTScore

\* `if (UCTScore > MaxUCTScore)`
takesOver(UCTScore, MaxUCTScore) == UCTScore > MaxUCTScore

RECURSIVE selectLoop(_, _, _, _)
\* the loop over the transitions from the i-th on: the first one not visited ends
\* it, a visited one of a higher score becomes the best
selectLoop(Ts, i, BestT, MaxUCTScore) ==
  IF i > Len(Ts) THEN BestT
  ELSE IF ~visited(Ts[i]) THEN i
  ELSE IF takesOver(Ts[i].Score, MaxUCTScore)
    THEN selectLoop(Ts, i + 1, i, Ts[i].Score)
    ELSE selectLoop(Ts, i + 1, BestT, MaxUCTScore)

\* the transition the selection takes at a node with the transitions Ts
selectBest(Ts) ==
  selectLoop(Ts, 1, 1, IF visited(Ts[1]) THEN Ts[1].Score ELSE 0)

SelectStart ==
  \E Ts \in selectInputs : call = [op |-> "select", Transitions |-> Ts, BestT |-> 0]

\* one turn of the loop that traverses down to a leaf
selectAtNode ==
  /\ call.op = "select"
  /\ call' = [call EXCEPT !.op = "selected", !.BestT = selectBest(call.Transitions)]
  /\ UNCHANGED <<frontierVars, searchVars, planVars, dpVars, heurVars, rollVars,
                 policyVars, driverVars>>

InitSelect ==
  /\ FrontierStart(1)
  /\ NoSearch /\ NoPlan /\ NoDP /\ NoHeuristic /\ NoRollout /\ NoPolicy /\ NoDriver
  /\ SelectStart

NextSelect == selectAtNode

SpecSelect == InitSelect /\ [][NextSelect]_vars

\* C21: at an expanded node with a transition not visited yet, the first such one
\* in the order of the transitions is taken whatever the scores; when all are
\* visited, the one of the highest score is taken, the earliest among equal scores
SelectionTakesFirstUnvisitedElseBest ==
  call.op = "selected" =>
    Let(call.Transitions, LAMBDA Ts :
      Let({i \in 1..Len(Ts) : ~visited(Ts[i])}, LAMBDA Unvisited :
        IF Unvisited # {} THEN call.BestT = Min(Unvisited)
        ELSE /\ \A j \in 1..Len(Ts) : Ts[j].Score <= Ts[call.BestT].Score
             /\ \A j \in 1..(call.BestT - 1) : Ts[j].Score < Ts[call.BestT].Score))

\* all the transitions were visited, two shared the highest score, a negative one,
\* and the earlier of the two, not the first transition, was taken
SelectedEarliestOfEqualScores ==
  /\ call.op = "selected"
  /\ \A i \in 1..Len(call.Transitions) : visited(call.Transitions[i])
  /\ call.BestT = 2
  /\ Len(call.Transitions) = 3
  /\ call.Transitions[3].Score = call.Transitions[2].Score
  /\ call.Transitions[2].Score < 0

\* ---------------------------------------------------------------------------
\* UCTSearch::run, one iteration followed step by step
\* ---------------------------------------------------------------------------

\* the blocks whose search is followed
IterationBlocks == {1, 2, 4, 5}

\* the iterations followed from one root
MaxIterations == 3

\* `CurNode->visitCount() >= ExpandThreshold`
reachedThreshold(N, Threshold) == N.Count >= Threshold

\* the assertions on the way of expand at a node with a partial pack:
\* `assert(!isFilled())` in getUsableInsts, `assert(!UsableInsts.empty())` in expand
expandAssertions(N) ==
  IF N.PP = NoPP THEN "ok"
  ELSE IF isFilled(N.PP) THEN "isFilled"
  ELSE IF getUsableInsts(N.PP, N.Frt) = <<>> THEN "UsableInsts.empty"
  ELSE "ok"

\* one iteration of run with what it did: the leaf, whether evalLeafNode and expand
\* were called, the assertion that stopped expand if one did, the leaf cost, and
\* the tree after the backpropagation
iterationSteps(Ns, Path, Evaluated, Threshold) ==
  Let(leafOf(Ns, 1, Path), LAMBDA CurNode :
    Let(~isTerminal(Ns[CurNode]), LAMBDA NonTerminal :
      Let(NonTerminal /\ reachedThreshold(Ns[CurNode], Threshold), LAMBDA Expand :
        Let(IF NonTerminal THEN Evaluated ELSE 0, LAMBDA LeafCost :
          Let(IF Expand THEN expandAssertions(Ns[CurNode]) ELSE "ok", LAMBDA Failed :
            Let(IF Expand /\ Failed = "ok" THEN expand(Ns, CurNode, MaxNumLanes) ELSE Ns,
                LAMBDA Ns1 :
              [CurNode |-> CurNode,
               evalLeafNode |-> NonTerminal,
               expand |-> Expand,
               Failed |-> Failed,
               NumTransitions |-> Len(Ns1[CurNode].Transitions),
               LeafCost |-> LeafCost,
               Nodes |-> IF Failed = "ok"
                           THEN backpropagate(Ns1, CurNode, Path, LeafCost)
                           ELSE Ns]))))))

\* no iteration has run yet
NoIteration ==
  [op |-> "none", Path |-> <<>>, CurNode |-> 0, Terminal |-> FALSE, CountBefore |-> 0,
   evalLeafNode |-> FALSE, expand |-> FALSE, Failed |-> "ok", NumTransitions |-> 0,
   LeafCost |-> 0, Expansions |-> <<>>]

\* the moves of earlier searches lead to the state the next search starts from
descendToRoot ==
  /\ call.op = "none"
  /\ Nodes = <<>>
  /\ \/ Scalarize
     \/ StartPP
     \/ FillLane
     \/ FillLaneCommit

\* the node of the state reached becomes the root of the search
getRoot ==
  /\ call.op = "none"
  /\ Nodes = <<>>
  /\ Nodes' = <<UCTNode(Frt, PP)>>
  /\ UNCHANGED <<pc, Iter, NumIters, asked, runs, ExpandThreshold, rootAtCall>>
  /\ UNCHANGED <<frontierVars, planVars, otherVars>>

\* one iteration of the loop of run, with the record of what it did; a failed
\* assertion ends the program
tracedIteration ==
  /\ call.op \in {"none", "iteration"}
  /\ Nodes # <<>>
  /\ Iter < MaxIterations
  /\ \E Path \in selectPaths(Nodes, 1), Evaluated \in LeafCosts :
       \E R \in {iterationSteps(Nodes, Path, Evaluated, ExpandThreshold)} :
         /\ Nodes' = R.Nodes
         /\ call' = [op |-> IF R.Failed = "ok" THEN "iteration" ELSE "aborted",
                     Path |-> Path, CurNode |-> R.CurNode, Failed |-> R.Failed,
                     Terminal |-> isTerminal(Nodes[R.CurNode]),
                     CountBefore |-> Nodes[R.CurNode].Count,
                     evalLeafNode |-> R.evalLeafNode, expand |-> R.expand,
                     NumTransitions |-> R.NumTransitions,
                     LeafCost |-> R.LeafCost,
                     Expansions |-> IF R.expand THEN Append(call.Expansions, R.CurNode)
                                    ELSE call.Expansions]
  /\ Iter' = Iter + 1
  /\ UNCHANGED <<pc, NumIters, asked, runs, ExpandThreshold, rootAtCall>>
  /\ UNCHANGED <<frontierVars, planVars, dpVars, heurVars, rollVars, policyVars,
                 driverVars>>

InitIteration ==
  /\ \E b \in IterationBlocks : FrontierStart(b)
  /\ Nodes = <<>>
  /\ pc = "idle"
  /\ Iter = 0
  /\ NumIters = 0
  /\ asked = 0
  /\ runs = 0
  /\ ExpandThreshold \in ExpandThresholds
  /\ rootAtCall = [Count |-> 0, Single |-> FALSE]
  /\ NoPlan /\ NoDP /\ NoHeuristic /\ NoRollout /\ NoPolicy /\ NoDriver
  /\ call = NoIteration

NextIteration ==
  \/ descendToRoot
  \/ getRoot
  \/ tracedIteration

SpecIteration == InitIteration /\ [][NextIteration]_vars

pathCostFrom(Ns, Path, i) ==
  SumSeq([j \in 1..(Len(Path) - i + 1) |->
            Ns[Path[i + j - 1].Parent].Transitions[Path[i + j - 1].T].Cost])

\* the nodes a path updates: the parents of its transitions
pathParents(Path) == {Path[i].Parent : i \in 1..Len(Path)}

\* C23: an iteration with the path T1..Tk and the leaf cost L updates the leaf with
\* L and the parent of each Ti with L + cost(Ti) + ... + cost(Tk), adds 1 to the
\* visit count of each Ti, and leaves the visit count and the total cost of every
\* other node and transition as they were
BackpropagationUpdatesThePath ==
  [][call'.op = "iteration" =>
       /\ Nodes'[call'.CurNode].Count = Nodes[call'.CurNode].Count + 1
       /\ Nodes'[call'.CurNode].TotalCost
            = Nodes[call'.CurNode].TotalCost + call'.LeafCost
       /\ \A i \in 1..Len(call'.Path) :
            /\ Nodes'[call'.Path[i].Parent].Count
                 = Nodes[call'.Path[i].Parent].Count + 1
            /\ Nodes'[call'.Path[i].Parent].TotalCost
                 = Nodes[call'.Path[i].Parent].TotalCost
                   + call'.LeafCost + pathCostFrom(Nodes, call'.Path, i)
            /\ Nodes'[call'.Path[i].Parent].Transitions[call'.Path[i].T].Count
                 = Nodes[call'.Path[i].Parent].Transitions[call'.Path[i].T].Count + 1
       /\ \A n \in 1..Len(Nodes') :
            /\ n \notin pathParents(call'.Path) \cup {call'.CurNode} =>
                 /\ Nodes'[n].Count = IF n <= Len(Nodes) THEN Nodes[n].Count ELSE 0
                 /\ Nodes'[n].TotalCost = IF n <= Len(Nodes) THEN Nodes[n].TotalCost ELSE 0
            /\ \A t \in 1..Len(Nodes'[n].Transitions) :
                 [Parent |-> n, T |-> t] \notin Range(call'.Path) =>
                   Nodes'[n].Transitions[t].Count
                     = IF n <= Len(Nodes) /\ t <= Len(Nodes[n].Transitions)
                         THEN Nodes[n].Transitions[t].Count ELSE 0]_vars

\* an iteration went down two transitions, one of them with a cost, to a leaf with
\* a cost, past a node with a transition it did not take
DeepPathBackpropagated ==
  /\ call.op = "iteration"
  /\ Len(call.Path) >= 2
  /\ call.LeafCost > 0
  /\ pathCostFrom(Nodes, call.Path, 1) > 0
  /\ \E i \in 1..Len(call.Path) : Len(Nodes[call.Path[i].Parent].Transitions) >= 2

\* C29: every expansion yields at least one transition: the assertions on the way
\* of expand hold (a partial pack to fill is not filled, its usable instructions
\* are not empty) and at least one child is added
EveryExpansionYieldsATransition ==
  call.expand => call.Failed = "ok" /\ call.NumTransitions >= 1


(***************************************************************************)
(* The walk over the frontiers of a block in which a pack has the same     *)
(* operand pack twice: advance(inst) and advance(pack) only.               *)
(***************************************************************************)
\* the blocks walked
TwiceBlocks == {7}

InitTwice == (\E b \in TwiceBlocks : FrontierStart(b)) /\ NoSearch /\ NoPlan /\ NoOther

NextTwice ==
  \/ Scalarize
  \/ Extend
  \/ Extend2
  \/ StartPP
  \/ FillLane
  \/ FillLaneCommit

SpecTwice == InitTwice /\ [][NextTwice]_vars

\* no operand pack is twice in the vector
NoDuplicates(s) == \A i, j \in 1..Len(s) : s[i] = s[j] => i = j

\* C27: advance(inst) and advance(pack) on a frontier whose unresolved
\* packs hold no operand pack twice give a frontier whose unresolved packs
\* hold no operand pack twice, also when the committed pack has the same
\* operand pack twice or an operand pack that is unresolved already.
UnresolvedPacksHoldNoPackTwice ==
  [][(NoDuplicates(Frt.UnresolvedPacks) /\ last'.op \in {"inst", "pack"})
       => NoDuplicates(Frt'.UnresolvedPacks)]_vars

\* the operand pack has a lane that is a free instruction of the block
hasFreeLane(F, OP) == \E l \in 1..Len(OP) : inBlock(OP[l]) /\ OP[l] \in F.FreeInsts

\* C28: in every frontier reached by advance(inst) and advance(pack) the
\* unresolved scalars are free and every unresolved operand pack has a lane
\* that is a free instruction of the block, so that a frontier without free
\* instructions has no unresolved scalar and no unresolved operand pack.
UnresolvedNeedsAFreeInstruction ==
  shuffles = 0 =>
    /\ Frt.UnresolvedScalars \subseteq Frt.FreeInsts
    /\ \A i \in 1..Len(Frt.UnresolvedPacks) : hasFreeLane(Frt, Frt.UnresolvedPacks[i])
    /\ Frt.FreeInsts = {} => (Frt.UnresolvedScalars = {} /\ Frt.UnresolvedPacks = <<>>)

(***************************************************************************)
(* improvePlan: the bottom-up improvement of a plan.  A pass of the outer  *)
(* loop tries the seed store packs, then the operand packs of the plan,    *)
(* then the concatenations of two packs of the plan; each try is a call of *)
(* Improve on a copy of the plan, and the first call that succeeds ends    *)
(* the pass.                                                               *)
(***************************************************************************)
\* the blocks improved
ImproveBlocks == {1, 3, 5}

\* the values the packs of a solution cover
solutionElements(NewPacks) == UNION {NewPacks[k].Elements : k \in 1..Len(NewPacks)}

\* the packs of the plan that produce a value of the solution
solutionOldPacks(P, NewPacks) ==
  SelectSeq(planPacks(P), LAMBDA VP2 : VP2.Elements \cap solutionElements(NewPacks) # {})

\* the variant of the test that wants the solution to cover more than the
\* packs it replaces
feasibleOverProper(Elements, N, Olds) ==
  /\ \A k \in 1..Len(Olds) : Olds[k].Elements \subseteq Elements
  /\ Elements # UNION {Olds[k].Elements : k \in 1..Len(Olds)}

RECURSIVE feasibleOver(_, _, _)
\* the loop over OldPacks of runBottomUpFromOperand: Elements absorbs each
\* old pack and must not grow beyond its N values
feasibleOver(Elements, N, Olds) ==
  IF Olds = <<>> THEN TRUE
  ELSE IF Cardinality(Elements \cup Head(Olds).Elements) > N THEN FALSE
  ELSE feasibleOver(Elements \cup Head(Olds).Elements, N, Tail(Olds))

RECURSIVE removeAll(_, _)
removeAll(P, Olds) ==
  IF Olds = <<>> THEN P ELSE removeAll(removePack(P, Head(Olds)), Tail(Olds))

RECURSIVE addAll(_, _)
addAll(P, News) ==
  IF News = <<>> THEN P ELSE addAll(addPack(P, Head(News)).Plan, Tail(News))

\* one iteration of the worklist loop of runBottomUpFromOperand
bottomUpStep(OP, P, Candidates, OverridePacked) ==
  Let(heuristicSolve(OP, Candidates).Packs, LAMBDA NewPacks :
    Let(solutionOldPacks(P, NewPacks), LAMBDA OldPacks :
      Let(IF OverridePacked THEN TRUE
          ELSE feasibleOver(solutionElements(NewPacks),
                            Cardinality(solutionElements(NewPacks)), OldPacks),
          LAMBDA Feasible :
        [OP |-> OP,
         OverridePacked |-> OverridePacked,
         NewPacks |-> NewPacks,
         OldPacks |-> OldPacks,
         Feasible |-> Feasible,
         Before |-> P,
         After |-> IF Feasible THEN addAll(removeAll(P, OldPacks), NewPacks) ELSE P,
         Operands |-> IF Feasible
                        THEN FlattenSeq([k \in 1..Len(NewPacks) |-> getOperandPacks(NewPacks[k])])
                        ELSE <<>>])))

RECURSIVE runWorklist(_, _, _, _, _)
\* the worklist loop: the operand pack at the back is taken first
runWorklist(Worklist, P, Candidates, OverridePacked, Trace) ==
  IF Worklist = <<>> THEN [Plan |-> P, Trace |-> Trace]
  ELSE Let(bottomUpStep(Worklist[Len(Worklist)], P, Candidates, OverridePacked), LAMBDA S :
         runWorklist(SubSeq(Worklist, 1, Len(Worklist) - 1) \o S.Operands, S.After,
                     Candidates, OverridePacked, Append(Trace, S)))

\* runBottomUpFromOperand: the plan it leaves and the iterations it made
runBottomUpFromOperand(OP, P, Candidates, OverridePacked) ==
  runWorklist(<<OP>>, P, Candidates, OverridePacked, <<>>)

RECURSIVE runBottomUpFromOperands(_, _, _, _, _)
\* the loop of Improve over its operand packs
runBottomUpFromOperands(OPs, P2, Candidates, Override, Trace) ==
  IF OPs = <<>> THEN [Plan |-> P2, Trace |-> Trace]
  ELSE Let(runBottomUpFromOperand(Head(OPs), P2, Candidates, Override), LAMBDA R :
         runBottomUpFromOperands(Tail(OPs), R.Plan, Candidates, Override, Trace \o R.Trace))

\* the variant of the test of Improve that takes a candidate of equal cost
costNotHigher(P2, P) == P2.cost <= P.cost

\* the test of Improve: P2.cost() < P.cost()
costLower(P2, P) == P2.cost < P.cost

\* the lambda Improve of improvePlan: the candidate it builds from the
\* copy P2 and whether the candidate replaces P
Improve(P, P2, OPs, Override, Candidates) ==
  Let(runBottomUpFromOperands(OPs, P2, Candidates, Override, <<>>), LAMBDA R :
    [Candidate |-> R.Plan,
     Trace |-> R.Trace,
     Improved |-> costLower(R.Plan, P),
     Plan |-> IF costLower(R.Plan, P) THEN R.Plan ELSE P])

\* the six calls of Improve for an operand pack, in the order of the
\* disjunction
splitTries(P2, OP) ==
  << [P2 |-> P2, OPs |-> <<OP>>, Override |-> FALSE],
     [P2 |-> P2, OPs |-> <<OP>>, Override |-> TRUE],
     [P2 |-> P2, OPs |-> <<even(OP), odd(OP)>>, Override |-> FALSE],
     [P2 |-> P2, OPs |-> <<even(OP), odd(OP)>>, Override |-> TRUE],
     [P2 |-> P2, OPs |-> <<odd(odd(OP)), even(odd(OP)), odd(even(OP)), even(even(OP))>>,
      Override |-> FALSE],
     [P2 |-> P2, OPs |-> <<odd(odd(OP)), even(odd(OP)), odd(even(OP)), even(even(OP))>>,
      Override |-> TRUE] >>

\* the seed packs of improvePlan: for every store, for every lane count
improveSeeds ==
  FlattenSeq([I \in 1..NumInsts |->
    IF isStore(I)
      THEN FlattenSeq([k \in 1..Len(VL) |-> getSeedMemPacks(TRUE, I, VL[k])])
      ELSE <<>>])

RECURSIVE removeProducers(_, _)
\* the producers of the values Vals leave the plan
removeProducers(P2, Vals) ==
  IF Vals = <<>> THEN P2
  ELSE removeProducers(IF getProducer(P2, Head(Vals)) # NoPack
                         THEN removePack(P2, getProducer(P2, Head(Vals))) ELSE P2,
                       Tail(Vals))

\* the tries of the first loop: the plan with the seed pack in place of the
\* producers of its values
seedTries(P) ==
  FlattenSeq([k \in 1..Len(improveSeeds) |->
    Let(improveSeeds[k], LAMBDA VP :
      splitTries(addPack(removeProducers(P, SetToSeq(VP.Elements)), VP).Plan,
                 getOperandPacks(VP)[1]))])

\* the operand packs of the plan in the order they are visited
planOperands(P) ==
  Let(planPacks(P), LAMBDA Packs :
    Dedup(FlattenSeq([k \in 1..Len(Packs) |-> getOperandPacks(Packs[k])])))

\* the tries of the second loop
operandTries(P) ==
  FlattenSeq([k \in 1..Len(planOperands(P)) |-> splitTries(P, planOperands(P)[k])])

\* the tries of the third loop: the concatenation of two independent packs
\* of the plan that some pack can produce
concatTries(P) ==
  Let(planPacks(P), LAMBDA Packs :
    FlattenSeq([i \in 1..Len(Packs) |->
      FlattenSeq([j \in 1..Len(Packs) |->
        IF \/ i = j
           \/ Packs[j].Depended \cap Packs[i].Elements # {}
           \/ Packs[i].Depended \cap Packs[j].Elements # {}
          THEN <<>>
        ELSE Let(getOrderedValues(Packs[i]) \o getOrderedValues(Packs[j]), LAMBDA OP :
               IF ~getProducerInfo(OP).Feasible THEN <<>>
               ELSE Let(removePack(removePack(P, Packs[i]), Packs[j]), LAMBDA P2 :
                      << [P2 |-> P2, OPs |-> <<OP>>, Override |-> FALSE],
                         [P2 |-> P2, OPs |-> <<OP>>, Override |-> TRUE] >>))])]))

\* the calls of Improve a pass over the plan P makes, as far as none succeeds
improveTries(P) == seedTries(P) \o operandTries(P) \o concatTries(P)

\* optimizeBottomUp: the candidate packs are the enumerated packs
improveCandidates == CandidatePackSet(Dedup(enumerate))

\* the packs a plan handed to improvePlan may hold at most
MaxPlanPacks == 2

ImproveStart(b) ==
  /\ FrontierStart(b)
  /\ producers = EmptyPlan.producers
  /\ unresolved = EmptyPlan.unresolved
  /\ cost = EmptyPlan.cost
  /\ planLast = PlanOp("new", NoPack, 0)
  /\ call = [op |-> "Plan"]

\* the caller of improvePlan builds the plan: the empty plan of
\* optimizeBottomUp, or a plan to which add has given candidate packs
improveAdd ==
  /\ call.op = "Plan"
  /\ Len(planPacks(ThePlan)) < MaxPlanPacks
  /\ \E Candidates \in {CandidatePacks} :
       \E k \in 1..Len(Candidates) :
         \E R \in {addPack(ThePlan, Candidates[k])} :
           /\ R.Ok
           /\ producers' = R.Plan.producers
           /\ unresolved' = R.Plan.unresolved
           /\ cost' = R.Plan.cost
  /\ UNCHANGED <<frontierVars, searchVars, planLast, otherVars>>

\* improvePlan is entered
improvePlan ==
  /\ call.op = "Plan"
  /\ call' = [op |-> "improvePlan", Next |-> 1, Pass |-> 1]
  /\ UNCHANGED <<frontierVars, searchVars, planVars, dpVars, heurVars, rollVars, policyVars,
                 driverVars>>

\* the next call of Improve of the pass; a call that succeeds starts the
\* next pass
improveCall ==
  /\ call.op \in {"improvePlan", "Improve"}
  /\ \E Tries \in {improveTries(ThePlan)} :
       /\ call.Next <= Len(Tries)
       /\ \E R \in {Improve(ThePlan, Tries[call.Next].P2, Tries[call.Next].OPs,
                            Tries[call.Next].Override, improveCandidates)} :
            /\ producers' = R.Plan.producers
            /\ unresolved' = R.Plan.unresolved
            /\ cost' = R.Plan.cost
            /\ call' = [op |-> "Improve",
                        Next |-> IF R.Improved THEN 1 ELSE call.Next + 1,
                        Pass |-> IF R.Improved THEN call.Pass + 1 ELSE call.Pass,
                        OPs |-> Tries[call.Next].OPs,
                        Override |-> Tries[call.Next].Override,
                        CostBefore |-> cost,
                        Candidate |-> R.Candidate,
                        Improved |-> R.Improved,
                        Trace |-> R.Trace]
  /\ UNCHANGED <<frontierVars, searchVars, planLast, dpVars, heurVars, rollVars, policyVars,
                 driverVars>>

\* a pass in which no call succeeded ends the loop
improveReturn ==
  /\ call.op \in {"improvePlan", "Improve"}
  /\ call.Next > Len(improveTries(ThePlan))
  /\ call' = [op |-> "return", Next |-> call.Next, Pass |-> call.Pass]
  /\ UNCHANGED <<frontierVars, searchVars, planVars, dpVars, heurVars, rollVars, policyVars,
                 driverVars>>

InitImprove ==
  /\ \E b \in ImproveBlocks : ImproveStart(b)
  /\ NoSearch /\ NoDP /\ NoHeuristic /\ NoRollout /\ NoPolicy /\ NoDriver

NextImprove ==
  \/ improveAdd
  \/ improvePlan
  \/ improveCall
  \/ improveReturn

SpecImprove == InitImprove /\ [][NextImprove]_vars


(***************************************************************************)
(* Properties of improvePlan.                                              *)
(***************************************************************************)
\* C24: during improvePlan the plan is replaced only by a candidate whose
\* cost is strictly lower than the plan's current cost: the cost of the plan
\* never increases, the outer loop repeats only after a strict decrease, and
\* a candidate that does not strictly lower the cost leaves the plan
\* unchanged.
PlanReplacedOnlyByCheaperCandidate ==
  [][call'.op = "Improve" =>
       /\ cost' <= cost
       /\ ThePlan' # ThePlan => (call'.Candidate.cost < cost /\ ThePlan' = call'.Candidate)
       /\ call'.Candidate.cost >= cost => ThePlan' = ThePlan
       /\ call'.Pass > call.Pass => cost' < cost
       /\ call'.Next = 1 => cost' < cost]_vars

\* a call of Improve replaced a plan that held packs by a cheaper candidate
\* and the loop started its next pass
CheaperCandidateReplacedThePlan ==
  /\ call.op = "Improve"
  /\ call.Improved
  /\ call.CostBefore > 0
  /\ cost < call.CostBefore
  /\ ThePlan = call.Candidate
  /\ call.Pass = 2
  /\ call.Next = 1


\* the values of the plan's packs that produce a value the solution covers
replacedElements(S) ==
  UNION {S.Before.producers[V].Elements :
           V \in {I \in solutionElements(S.NewPacks) : S.Before.producers[I] # NoPack}}

\* the iterations of runBottomUpFromOperand the last call of Improve made
bottomUpSteps == IF call.op = "Improve" THEN Range(call.Trace) ELSE {}

\* the packs of a plan
packsOf(P) == Range(P.producers) \ {NoPack}

\* the solution took the place of the packs producing its values
replacementMade(S) ==
  packsOf(S.After) = (packsOf(S.Before) \ Range(S.OldPacks)) \cup Range(S.NewPacks)

\* C25 as stated: with override=false the solution of an operand pack
\* replaces the affected packs of the plan only if the values it covers are
\* a proper superset of the values of the packs it replaces, and otherwise
\* the plan is left unchanged; with override=true the replacement is always
\* made.
ReplacesOnlyOnProperSuperset ==
  \A S \in bottomUpSteps :
    /\ S.OverridePacked => replacementMade(S)
    /\ (~S.OverridePacked /\ S.After # S.Before) =>
         /\ replacedElements(S) \subseteq solutionElements(S.NewPacks)
         /\ replacedElements(S) # solutionElements(S.NewPacks)

\* C25: with override=false the solution of an operand pack replaces the
\* affected packs of the plan exactly when the values it covers are a
\* superset of the values of the packs it replaces, the same set included,
\* and otherwise the plan is left unchanged; with override=true the
\* replacement is always made.
ReplacesOnSuperset ==
  \A S \in bottomUpSteps :
    /\ S.OverridePacked => replacementMade(S)
    /\ ~S.OverridePacked =>
         IF replacedElements(S) \subseteq solutionElements(S.NewPacks)
           THEN replacementMade(S)
           ELSE S.After = S.Before

\* without override a solution took the place of other packs that produce
\* exactly the values it covers
ReplacedPacksOfTheSameValues ==
  \E S \in bottomUpSteps :
    /\ ~S.OverridePacked
    /\ S.After # S.Before
    /\ S.OldPacks # <<>>
    /\ replacedElements(S) = solutionElements(S.NewPacks)


(***************************************************************************)
(* findExtendingLoadPack, loop by loop: the for loop over the lanes that   *)
(* may lead the chain and the while loop that follows the load DAG from    *)
(* the lead.                                                               *)
(***************************************************************************)
\* the blocks whose loads are searched
FindBlocks == {1, 3}

\* the lanes of the operand packs searched at most
MaxFindLanes == 4

\* the operand packs whose non-null lanes are loads of the block
findInputs ==
  UNION {[1..n -> {0} \cup {I \in Insts : isLoad(I)}] : n \in 1..MaxFindLanes}

\* the variant of the loop body that steps over a gap without a lane for it
chainNextNoGapLane(LoadSet, S) ==
  Let(LoadDAG[S.CurLoad] \cap LoadSet, LAMBDA InSet :
    IF InSet = {}
      THEN [S EXCEPT !.CurLoad = Min(LoadDAG[S.CurLoad])]
    ELSE IF ~checkIndependence(Min(InSet), S.Elements, S.Depended)
      THEN [S EXCEPT !.pc = "after"]
    ELSE [S EXCEPT !.CurLoad = Min(InSet),
                   !.Loads = Append(@, Min(InSet)),
                   !.Elements = @ \cup {Min(InSet)},
                   !.Depended = @ \cup getDepended(Min(InSet))])

\* the body of the while loop once the chain goes on from CurLoad: the
\* next load of the load set, or a don't-care for the gap
chainNext(LoadSet, S) ==
  Let(LoadDAG[S.CurLoad] \cap LoadSet, LAMBDA InSet :
    IF InSet = {}
      THEN [S EXCEPT !.CurLoad = Min(LoadDAG[S.CurLoad]),
                     !.Loads = Append(@, 0)]
    ELSE IF ~checkIndependence(Min(InSet), S.Elements, S.Depended)
      THEN [S EXCEPT !.pc = "after"]
    ELSE [S EXCEPT !.CurLoad = Min(InSet),
                   !.Loads = Append(@, Min(InSet)),
                   !.Elements = @ \cup {Min(InSet)},
                   !.Depended = @ \cup getDepended(Min(InSet))])

\* the padding of the chain to the lanes of the operand pack
padLoads(Loads, Size) ==
  Loads \o [i \in 1..(IF Len(Loads) < PowerOf2Ceil(Size)
                        THEN PowerOf2Ceil(Size) - Len(Loads) ELSE 0) |-> 0]

FindStart(b) ==
  /\ FrontierStart(b)
  /\ \E OP \in findInputs :
       call = [op |-> "findExtendingLoadPack", pc |-> "for", OP |-> OP, Lead |-> 1,
               LoadSet |-> {OP[i] : i \in {j \in 1..Len(OP) : OP[j] # 0}},
               CurLoad |-> 0, Loads |-> <<>>, Elements |-> {}, Depended |-> {},
               Steps |-> 0, Result |-> NoPack]

\* the for loop: the next lane that is not null leads a chain; no lane left
\* returns null
findFor ==
  /\ call.op = "findExtendingLoadPack"
  /\ call.pc = "for"
  /\ call' =
       IF call.Lead > Len(call.OP) THEN [call EXCEPT !.pc = "return"]
       ELSE IF call.OP[call.Lead] = 0 THEN [call EXCEPT !.Lead = @ + 1]
       ELSE [call EXCEPT !.pc = "while",
                         !.CurLoad = call.OP[call.Lead],
                         !.Loads = <<call.OP[call.Lead]>>,
                         !.Elements = {call.OP[call.Lead]},
                         !.Depended = getDepended(call.OP[call.Lead])]
  /\ UNCHANGED <<frontierVars, searchVars, planVars, dpVars, heurVars, rollVars, policyVars,
                 driverVars>>

\* one test of the while loop and, when it holds, one run of its body
findWhile ==
  /\ call.op = "findExtendingLoadPack"
  /\ call.pc = "while"
  /\ call' =
       IF Cardinality(call.Elements) >= Cardinality(call.LoadSet)
            \/ call.CurLoad \notin DOMAIN LoadDAG
         THEN [call EXCEPT !.pc = "after"]
         ELSE [chainNext(call.LoadSet, call) EXCEPT !.Steps = @ + 1]
  /\ UNCHANGED <<frontierVars, searchVars, planVars, dpVars, heurVars, rollVars, policyVars,
                 driverVars>>

\* after the while loop: a chain of all the loads is padded and returned,
\* any other chain gives way to the next lead
findAfter ==
  /\ call.op = "findExtendingLoadPack"
  /\ call.pc = "after"
  /\ call' =
       IF Cardinality(call.Elements) = Cardinality(call.LoadSet)
         THEN [call EXCEPT !.pc = "return",
                           !.Result = createLoadPack(padLoads(call.Loads, Len(call.OP)),
                                                     call.Elements, call.Depended)]
         ELSE [call EXCEPT !.pc = "for", !.Lead = @ + 1]
  /\ UNCHANGED <<frontierVars, searchVars, planVars, dpVars, heurVars, rollVars, policyVars,
                 driverVars>>

InitFind ==
  /\ \E b \in FindBlocks : FindStart(b)
  /\ NoSearch /\ NoPlan /\ NoDP /\ NoHeuristic /\ NoRollout /\ NoPolicy /\ NoDriver

NextFind ==
  \/ findFor
  \/ findWhile
  \/ findAfter

\* the loops run on: the function is not suspended
SpecFind == InitFind /\ [][NextFind]_vars /\ WF_vars(NextFind)

(***************************************************************************)
(* Properties of findExtendingLoadPack.                                    *)
(***************************************************************************)
\* the lanes of a load pack holding the load I
lanesOf(Loads, I) == {l \in 1..Len(Loads) : Loads[l] = I}

\* what findExtendingLoadPack may return for the operand pack OP
extendingLoadPackOrNull(OP, VP) ==
  \/ VP = NoPack
  \/ /\ VP.Kind = "Load"
     /\ VP.Elements = {OP[i] : i \in {j \in 1..Len(OP) : OP[j] # 0}}
     /\ \A l \in 1..Len(VP.Accesses) : VP.Accesses[l] = 0 \/ VP.Accesses[l] \in VP.Elements
     /\ \A I \in VP.Elements : Cardinality(lanesOf(VP.Accesses, I)) = 1
     /\ \A l \in 1..(Len(VP.Accesses) - 1) :
          (VP.Accesses[l] # 0 /\ VP.Accesses[l + 1] # 0)
            => isConsecutiveAccess(VP.Accesses[l], VP.Accesses[l + 1])
     \* a don't-care between two loads stands for the addresses between them
     /\ \A l \in 1..Len(VP.Accesses) : \A m \in (l + 1)..Len(VP.Accesses) :
          (VP.Accesses[l] # 0 /\ VP.Accesses[m] # 0)
            => /\ InstAddr(BB)[VP.Accesses[l]][1] = InstAddr(BB)[VP.Accesses[m]][1]
               /\ InstAddr(BB)[VP.Accesses[m]][2] = InstAddr(BB)[VP.Accesses[l]][2] + (m - l)

\* C26: for an operand pack whose non-null lanes are all loads of the block,
\* findExtendingLoadPack returns null or a load pack whose elements are
\* exactly the loads of the operand pack, each in one lane, with a
\* don't-care in every gap of the chain and in every padding lane and with
\* neighbouring loads consecutive in the load DAG; and the search returns
\* for every operand pack.
ExtendingLoadPackHoldsTheLoadsAndReturns ==
  /\ [](call.pc = "return" =>
          /\ extendingLoadPackOrNull(call.OP, call.Result)
          /\ call.Result = findExtendingLoadPack(call.OP))
  /\ <>(call.pc = "return")

\* a jumbled operand pack of three loads was given a chain with a gap and
\* a padding lane
JumbledLoadsChainedOverAGap ==
  /\ call.op = "findExtendingLoadPack"
  /\ call.pc = "return"
  /\ call.Result # NoPack
  /\ call.Lead > 1
  /\ Len(call.Result.Accesses) > Cardinality(call.LoadSet) + 1
  /\ \E l \in 2..(Len(call.Result.Accesses) - 1) :
       call.Result.Accesses[l] = 0 /\ call.Result.Accesses[l + 1] # 0
  /\ call.Result.Accesses[Len(call.Result.Accesses)] = 0


(***************************************************************************)
(* PackingModel: the ids of the opcode read-out.  The read-out layer has   *)
(* NumPackOps outputs; the probability of a decision is read at the id of  *)
(* its opcode.                                                             *)
(***************************************************************************)
\* the bindings of the instruction pool at most
MaxInstPool == 3

\* the lanes of the model at most
MaxModelLanes == 4

\* PackingModel::getNopId
getNopId(M) == M.InstPoolSize

\* PackingModel::getMemAccessId
getMemAccessId(M, NumLanes) == M.InstPoolSize + NumLanes - 2

\* the constructor: the outputs of the opcode read-out layer
NumPackOps(InstPoolSize, Lanes) == InstPoolSize + 1 + (Lanes - 2 + 1)

NoRead == [Kind |-> "none", Arg |-> 0, Id |-> 0]

PackingModelStart ==
  \E InstPoolSize \in 0..MaxInstPool, Lanes \in 2..MaxModelLanes :
    call = [op |-> "PackingModel", InstPoolSize |-> InstPoolSize, MaxNumLanes |-> Lanes,
            NumPackOps |-> NumPackOps(InstPoolSize, Lanes), Prev |-> NoRead, Last |-> NoRead]

readOut(Kind, Arg, Id) ==
  /\ call.op = "PackingModel"
  /\ call' = [call EXCEPT !.Prev = call.Last, !.Last = [Kind |-> Kind, Arg |-> Arg, Id |-> Id]]
  /\ UNCHANGED <<frontierVars, searchVars, planVars, dpVars, heurVars, rollVars,
                 policyVars, driverVars>>

\* computeProb reads the probability of leaving the focus scalar
readNop ==
  /\ call.op = "PackingModel"
  /\ readOut("nop", 0, getNopId(call))

\* computeProb reads the probability of a pack of a binding of the pool
readInst == \E InstId \in 0..(call.InstPoolSize - 1) : readOut("inst", InstId, InstId)

\* the probability of a load or store pack of NumLanes lanes is read
readMemAccess ==
  \E NumLanes \in 2..call.MaxNumLanes :
    readOut("mem", NumLanes, getMemAccessId(call, NumLanes))

InitPackingModel ==
  /\ FrontierStart(1)
  /\ NoSearch /\ NoPlan /\ NoDP /\ NoHeuristic /\ NoRollout /\ NoPolicy /\ NoDriver
  /\ PackingModelStart

NextPackingModel ==
  \/ readNop
  \/ readInst
  \/ readMemAccess

SpecPackingModel == InitPackingModel /\ [][NextPackingModel]_vars

\* C30: the opcode ids of the read-out are pairwise distinct and smaller
\* than the size of the opcode read-out layer: the ids of the instructions
\* of the pool, the nop id and the memory-access ids of the lane counts
\* from 2 to MaxNumLanes never coincide.
OpcodeIdsDistinctAndInRange ==
  call.op = "PackingModel" =>
    /\ call.Last.Kind # "none" => call.Last.Id < call.NumPackOps
    /\ (call.Prev.Kind # "none" /\ <<call.Prev.Kind, call.Prev.Arg>> # <<call.Last.Kind, call.Last.Arg>>)
         => call.Prev.Id # call.Last.Id

====
